---- MODULE Spec2Model ----
(***************************************************************************)
(* OpenTasker: the task store (tasks.py), the deadline reconciler          *)
(* (reminders.py) and the callback router (menu.py) over one SQLite table. *)
(*                                                                         *)
(* Every script opens its own connection.  Python's sqlite3 module opens a *)
(* transaction only in front of INSERT/UPDATE/DELETE, so a SELECT is one   *)
(* atomic step and an UPDATE..commit is another: two specifications are    *)
(* given.  Spec runs every operation from its SELECT to its commit without *)
(* interleaving; ConcSpec lets the operations of several processes         *)
(* interleave between their SELECT and their UPDATE.  CreateSpec runs      *)
(* add_task alone, on every shape of its input.  ArchiveSpec runs the      *)
(* weekly review with its archival sweep over a clock that spans the       *)
(* retention window.  ListSpec runs list_tasks over tasks of every         *)
(* priority, deadline and assignee.  TagSpec applies normalize_tags to     *)
(* every list of tags.  RouteSpec runs `menu.py route` on every token, with *)
(* and without a caller, a reachable store and a chained script in time.   *)
(***************************************************************************)
EXTENDS Integers, Sequences, FiniteSets, TLC

\* ---- bounds of the model ------------------------------------------------
MaxTasks == 2      \* rows ever inserted
MaxTime  == 1      \* the clock runs 0..MaxTime
MaxChat  == 2      \* chat ids 1..MaxChat

NProcs       == 2  \* ConcSpec: concurrently running script processes
MaxConcTasks == 1  \* ConcSpec: rows ever inserted

MaxRouteTasks == 1 \* RouteSpec: rows ever inserted

MaxUsers == 3      \* SearchSpec: users ever registered
MaxText  == 3      \* SearchSpec: letters of a name or of a query, trimmed
MaxUpdates == 3    \* HandlerSpec: updates received

MaxTagLen == 3     \* TagSpec: characters of a tag given
MaxTags   == 2     \* TagSpec: tags of a list given

TicksPerDay == 2   \* ArchiveSpec: readings of the clock per calendar day
MaxSpan     == 1   \* ArchiveSpec: the clock reads 0..MaxSpan, and as many
                   \* readings from one retention window later on

\* ---- values -------------------------------------------------------------
\* SQL NULL / Python None.  A nullable value v is NULL or <<...>>.
NULL == <<>>

Times   == 0..MaxTime
ChatIds == 1..MaxChat
Procs   == 1..NProcs

\* A deadline is ISO-8601 text.  What the code does with it is (a) compare it
\* as text with now_iso() and (b) datetime.fromisoformat(), whose result is
\* offset-aware only if the text carries an offset.  <<t, aware>> is the text
\* of instant t, written with a "+00:00" offset (aware) or without (naive).
\* The deadlines given as input: every instant of the clock with an offset,
\* and the first one also without.
Deadlines == {d \in Times \X BOOLEAN : d[2] \/ d[1] = 0}

\* tasks.py main: the sub-commands done / start / cancel
CommandStatus(action) ==
    CASE action = "done"   -> "done"
      [] action = "start"  -> "in_progress"
      [] action = "cancel" -> "cancelled"

Actions == {"done", "start", "cancel"}

VARIABLES
    tasks,     \* the tasks table: id -> row
    nextId,    \* sqlite_sequence of the AUTOINCREMENT key (last id given)
    now,       \* the wall clock
    last,      \* the operation completed last: its arguments and what it
               \* returned
    notes,     \* id -> overdue notifications emitted for the task since its
               \* status was last written to something other than overdue
    everDone,  \* the ids of the tasks some transition has set to done
    procs,     \* ConcSpec: process -> the operation it is inside
    base,      \* ConcSpec: the table when the running episode began
    log,       \* ConcSpec: the operations started in the running episode, as
               \* long as they are at most two
    tags_column, \* whether the tasks table of the database file has the
               \* column `tags`
    users,     \* the users table: telegram_id -> row
    sightings, \* telegram_id -> the chat ids given to the upsert_user calls
               \* for that user that have completed
    handlers   \* tg_handler.py: the threads started for the updates received,
               \* in the order of the updates: the update, where the thread
               \* is, and the program it has run

vars == <<tasks, nextId, now, last, notes, everDone, procs, base, log,
          tags_column, users, sightings, handlers>>

\* ---- the table ------------------------------------------------------------
\* init_db.py: CHECK(priority IN (...))
Priorities == {"low", "medium", "high"}

\* init_db.py: the columns of tasks the operations below read or write, with
\* the defaults of the schema (status 'todo', cron_job_ids '[]', updated_at
\* datetime('now'), completed_at NULL).  priority and assignee_id are
\* nullable: <<v>> or NULL
Row(description, creator, assignee, chat, deadline, priority, t) ==
    [description  |-> description,
     creator_id   |-> creator,
     assignee_id  |-> assignee,
     chat_id      |-> chat,
     deadline     |-> deadline,
     priority     |-> priority,
     status       |-> "todo",
     cron_job_ids |-> <<>>,
     updated_at   |-> t,
     completed_at |-> NULL]

\* SELECT * FROM tasks WHERE id = ? ; fetchone()
get_row(store, id) == IF id \in DOMAIN store THEN <<store[id]>> ELSE NULL

\* text comparison  deadline < ?  against now_iso(): the naive text of t is a
\* proper prefix of the aware text of t, and otherwise the instants decide
DeadlineBefore(d, t) == d[1] < t

\* `if chat_id:` -- None and 0 both mean "no filter"
ChatFilter(chat_id) == chat_id # NULL /\ chat_id # <<0>>

InScope(row, chat_id) == ChatFilter(chat_id) => row.chat_id = chat_id[1]

\* ---- the record of the operation completed last ----------------------------
NoOp == [op |-> "none", id |-> 0, chat |-> NULL, old_status |-> "",
         result |-> "", ids |-> {}, rerun |-> FALSE, cron |-> NULL,
         list |-> <<>>, args |-> <<>>, sent |-> <<>>, raised |-> FALSE]

\* The operation completed last since the clock last moved.  id: the --id
\* given (0: none).  old_status: the status of the row the operation read
\* (update_status returns it).  ids: the task ids in the list check_overdue
\* returned.  rerun: a check_overdue that follows a check_overdue of the same
\* or of every chat, with no time passed and nothing in between.  cron: the
\* cron_jobs_to_remove of the result, <<list>>, or NULL when the result has
\* no such key.  list: the ids of the tasks list_tasks returned, in order.
\* args, sent, raised: of `menu.py route`, what it was given, the messages it
\* sent to the chat, and whether it ended in the handler of main that prints
\* {"ok": false, "error": ...} and exits 1
Done(op, id, chat, row, result, ids) ==
    [op |-> op, id |-> id, chat |-> chat,
     old_status |-> IF row = NULL THEN "" ELSE row[1].status,
     result |-> result, ids |-> ids,
     rerun |-> (op = "check_overdue" /\ last.op = "check_overdue"
                /\ last.chat \in {chat, NULL}),
     cron |-> NULL,
     list |-> <<>>, args |-> <<>>, sent |-> <<>>, raised |-> FALSE]

\* what a write of `status` to the rows `ids` does to the notification count
Rearm(n, ids, status) ==
    [i \in DOMAIN n |-> IF i \in ids /\ status # "overdue" THEN 0 ELSE n[i]]

Seen(n, ids) ==
    [i \in DOMAIN n |-> IF i \in ids /\ n[i] < 2 THEN n[i] + 1 ELSE n[i]]

Idle == [op |-> "idle"]

\* ---- normalize_tags ----------------------------------------------------------
\* A text is a sequence of characters

\* str.lstrip(chars), str.rstrip(chars)
RECURSIVE lstrip(_, _)
lstrip(text, chars) ==
    IF text # <<>> /\ Head(text) \in chars THEN lstrip(Tail(text), chars) ELSE text

RECURSIVE rstrip(_, _)
rstrip(text, chars) ==
    IF text # <<>> /\ text[Len(text)] \in chars
    THEN rstrip(SubSeq(text, 1, Len(text) - 1), chars)
    ELSE text

\* str.strip()
strip(text) == rstrip(lstrip(text, {" "}), {" "})

\* str.lower()
lower(text) ==
    [n \in DOMAIN text |-> CASE text[n] = "A" -> "a"
                             [] text[n] = "B" -> "b"
                             [] text[n] = "M" -> "m"
                             [] text[n] = "S" -> "s"
                             [] OTHER         -> text[n]]

\* line 45: t.strip().lstrip("#").lower().strip()
normalize_tag(t) == strip(lower(lstrip(strip(t), {"#"})))

\* lines 42-48: the loop, with result so far (seen has the tags of result)
RECURSIVE normalize_tags_loop(_, _)
normalize_tags_loop(tags, result) ==
    IF tags = <<>> THEN result
    ELSE LET tag == normalize_tag(Head(tags))
         IN  normalize_tags_loop(
                 Tail(tags),
                 IF tag # <<>> /\ \A n \in DOMAIN result : result[n] # tag
                 THEN Append(result, tag) ELSE result)

\* lines 38-49
normalize_tags(tags) == normalize_tags_loop(tags, <<>>)

\* add_task line 69, edit_task lines 283-287: the list given is normalized
\* and the result is what is stored.  last.list is the list given
normalize_tags_call ==
    /\ last.op = "tags"
    /\ last' = [last EXCEPT !.op = "normalize_tags",
                            !.list = normalize_tags(last.list)]
    /\ UNCHANGED <<tasks, nextId, now, notes, everDone, procs, base, log,
                   tags_column, users, sightings, handlers>>

\* edit_task lines 283-287 on the tags a task has: the list stored is
\* normalized once more
normalize_tags_again ==
    /\ last.op = "normalize_tags"
    /\ last' = [last EXCEPT !.op = "normalize_tags_again",
                            !.list = normalize_tags(last.list)]
    /\ UNCHANGED <<tasks, nextId, now, notes, everDone, procs, base, log,
                   tags_column, users, sightings, handlers>>

\* ---- add_task --------------------------------------------------------------
AddKeys == {"description", "creator_id", "chat_id", "deadline"}

\* the JSON object given to `tasks.py add`: the keys K; a value is <<v>> or
\* NULL (JSON null); the deadline is a deadline text or NULL
AddData(K, chat, deadline, priority) ==
    [k \in K |-> CASE k = "description"         -> <<"text">>
                   [] k = "creator_id"          -> <<1>>
                   [] k = "creator_telegram_id" -> <<2>>
                   [] k = "chat_id"             -> chat
                   [] k = "deadline"            -> deadline
                   [] k = "priority"            -> priority]

\* dict.get(k), dict.get(k, default)
Get(data, k, default) == IF k \in DOMAIN data THEN data[k] ELSE default

\* Python's `a or b` on an integer or None
Either(a, b) == IF a = NULL \/ a = <<0>> THEN b ELSE a

\* an add_task that does not ask for the creator
add_task_valid_without_creator(data) ==
    /\ "description" \in DOMAIN data
    /\ "chat_id" \in DOMAIN data

\* lines 56-61: no required field is missing
add_task_valid(data) ==
    /\ "description" \in DOMAIN data
    /\ "creator_telegram_id" \in DOMAIN data \/ "creator_id" \in DOMAIN data
    /\ "chat_id" \in DOMAIN data

\* lines 66-67
add_task_creator(data) ==
    Either(Get(data, "creator_telegram_id", NULL), Get(data, "creator_id", NULL))

\* line 67
add_task_assignee(data) ==
    Either(Get(data, "assignee_telegram_id", NULL), Get(data, "assignee_id", NULL))

\* lines 71-90: whether SQLite accepts the INSERT: the table has every column
\* named, description, creator_id and chat_id are NOT NULL, and the CHECK on
\* priority (which a NULL passes)
add_task_accepts(data) ==
    /\ tags_column
    /\ data["description"] # NULL
    /\ add_task_creator(data) # NULL
    /\ data["chat_id"] # NULL
    /\ Get(data, "priority", <<"medium">>) \in {NULL} \cup {<<p>> : p \in Priorities}

\* lines 71-91: INSERT with the AUTOINCREMENT key, commit
add_task_commit(store, id, data, t) ==
    [i \in DOMAIN store \cup {id} |->
        IF i = id
        THEN Row(data["description"][1], add_task_creator(data)[1],
                 add_task_assignee(data),
                 data["chat_id"][1], Get(data, "deadline", NULL),
                 Get(data, "priority", <<"medium">>), t)
        ELSE store[i]]

\* a key without AUTOINCREMENT: one more than the largest id in the table
lastrowid_of_largest(store, seq) ==
    IF DOMAIN store = {} THEN 1
    ELSE (CHOOSE m \in DOMAIN store : \A i \in DOMAIN store : i <= m) + 1

\* init_db.py: id INTEGER PRIMARY KEY AUTOINCREMENT -- the id of the row
\* inserted is one more than the largest id the table ever had, which
\* sqlite_sequence (seq) keeps; tasks.py line 90 reads it
lastrowid(store, seq) == seq + 1

\* the result: "invalid" is the missing-field error add_task returns, "error"
\* the sqlite3 exception main prints
add_task(data) ==
    /\ nextId < MaxTasks
    /\ IF add_task_valid(data) /\ add_task_accepts(data)
       THEN LET id == lastrowid(tasks, nextId)
            IN  /\ tasks' = add_task_commit(tasks, id, data, now)
                /\ nextId' = nextId + 1
                /\ notes' = [i \in DOMAIN notes \cup {id} |->
                                IF i = id THEN 0 ELSE notes[i]]
                /\ last' = Done("add_task", id, NULL, NULL, "ok", {})
       ELSE /\ UNCHANGED <<tasks, nextId, notes>>
            /\ last' = Done("add_task", 0, NULL, NULL,
                            IF add_task_valid(data) THEN "error" ELSE "invalid", {})
    /\ UNCHANGED <<now, everDone, procs, base, log, tags_column, users, sightings, handlers>>

\* ---- list_tasks ------------------------------------------------------------
\* lines 107-122: the WHERE clause.  status is NULL (no --status, or an empty
\* one) or <<S>>, S the statuses the text names
list_tasks_select(store, assignee_id, chat_id, status) ==
    {i \in DOMAIN store :
        /\ assignee_id # NULL => store[i].assignee_id = assignee_id
        /\ chat_id # NULL => store[i].chat_id = chat_id[1]
        /\ status # NULL => store[i].status \in status[1]}

\* line 123: CASE priority WHEN 'high' THEN 0 WHEN 'medium' THEN 1 WHEN 'low'
\* THEN 2 END -- NULL for a priority that is NULL, and NULL sorts first
priority_rank(priority) ==
    CASE priority = <<"high">>   -> 0
      [] priority = <<"medium">> -> 1
      [] priority = <<"low">>    -> 2
      [] OTHER                   -> -1

\* line 123: deadline ASC NULLS LAST, on the text: the text without offset is
\* a proper prefix of the text of the same instant with one
deadline_asc(a, b) ==
    /\ a # NULL
    /\ \/ b = NULL
       \/ a[1] < b[1]
       \/ a[1] = b[1] /\ ~a[2] /\ b[2]

\* an ORDER BY that takes the deadline first and the priority second
list_tasks_before_deadline_first(store, i, j) ==
    \/ deadline_asc(store[i].deadline, store[j].deadline)
    \/ /\ store[i].deadline = store[j].deadline
       /\ \/ priority_rank(store[i].priority) < priority_rank(store[j].priority)
          \/ /\ priority_rank(store[i].priority) = priority_rank(store[j].priority)
             /\ i > j

\* line 123: ORDER BY <priority rank>, deadline ASC NULLS LAST, id DESC
list_tasks_before(store, i, j) ==
    \/ priority_rank(store[i].priority) < priority_rank(store[j].priority)
    \/ /\ priority_rank(store[i].priority) = priority_rank(store[j].priority)
       /\ \/ deadline_asc(store[i].deadline, store[j].deadline)
          \/ store[i].deadline = store[j].deadline /\ i > j

\* the rows ids of store in the order of the query
RECURSIVE list_tasks_order(_, _)
list_tasks_order(store, ids) ==
    IF ids = {} THEN <<>>
    ELSE LET first == CHOOSE i \in ids :
                         \A j \in ids \ {i} : list_tasks_before(store, i, j)
         IN  <<first>> \o list_tasks_order(store, ids \ {first})

\* lines 102-129
list_tasks(assignee_id, chat_id, status) ==
    LET ids == list_tasks_select(tasks, assignee_id, chat_id, status)
    IN  /\ last' = [Done("list_tasks", 0, chat_id, NULL, "ok", {})
                    EXCEPT !.list = list_tasks_order(tasks, ids)]
        /\ UNCHANGED <<tasks, nextId, now, notes, everDone, procs, base, log,
                       tags_column, users, sightings, handlers>>

\* ---- update_status ---------------------------------------------------------
\* an update_status without the shortcut for a task already in the status
update_status_plan_rewrites(row, new_status, t) ==
    IF row = NULL
    THEN [kind |-> "not_found", status |-> "", completed_at |-> NULL]
    ELSE [kind |-> "write", status |-> new_status,
          completed_at |-> IF new_status = "done" THEN <<t>>
                           ELSE row[1].completed_at]

\* lines 178-191: what the row read decides
update_status_plan(row, new_status, t) ==
    IF row = NULL
    THEN [kind |-> "not_found", status |-> "", completed_at |-> NULL]
    ELSE IF row[1].status = new_status
    THEN [kind |-> "noop", status |-> "", completed_at |-> NULL]
    ELSE [kind |-> "write", status |-> new_status,
          completed_at |-> IF new_status = "done" THEN <<t>>
                           ELSE row[1].completed_at]

\* lines 193-199: UPDATE tasks SET status, updated_at, completed_at WHERE id = ?
update_status_commit(store, id, plan, t) ==
    IF id \in DOMAIN store
    THEN [store EXCEPT ![id].status = plan.status,
                       ![id].updated_at = t,
                       ![id].completed_at = plan.completed_at]
    ELSE store

\* an update_status that hands the references out on a redundant call too
update_status_cron_on_noop(row, new_status, plan) ==
    IF row # NULL /\ new_status \in {"done", "cancelled"}
    THEN <<row[1].cron_job_ids>>
    ELSE NULL

\* lines 212-213: the cron_jobs_to_remove of the result: the cron_job_ids of
\* the row read, when the UPDATE ran and the new status is done or cancelled
update_status_cron(row, new_status, plan) ==
    IF plan.kind = "write" /\ new_status \in {"done", "cancelled"}
    THEN <<row[1].cron_job_ids>>
    ELSE NULL

update_status(id, new_status) ==
    LET row  == get_row(tasks, id)
        plan == update_status_plan(row, new_status, now)
    IN  /\ IF plan.kind = "write"
           THEN /\ tasks' = update_status_commit(tasks, id, plan, now)
                /\ notes' = Rearm(notes, {id}, new_status)
                /\ everDone' = IF new_status = "done" THEN everDone \cup {id}
                               ELSE everDone
           ELSE UNCHANGED <<tasks, notes, everDone>>
        /\ last' = [Done("update_status", id, NULL, row,
                         IF plan.kind = "write" THEN "ok" ELSE plan.kind, {})
                    EXCEPT !.cron = update_status_cron(row, new_status, plan)]
        /\ UNCHANGED <<nextId, now, procs, base, log, tags_column, users, sightings, handlers>>

\* ---- extend_deadline -------------------------------------------------------
\* an extend_deadline that writes back the status it read
extend_deadline_plan_keeps_status(row) ==
    IF row = NULL THEN [kind |-> "not_found", status |-> ""]
    ELSE [kind |-> "write", status |-> row[1].status]

\* an extend_deadline that does not look whether the row exists
extend_deadline_plan_unchecked(row) ==
    [kind |-> "write",
     status |-> IF row = NULL \/ row[1].status = "overdue" THEN "todo"
                ELSE row[1].status]

\* lines 225-236: the status written back: the one read, or todo for overdue
extend_deadline_plan(row) ==
    IF row = NULL THEN [kind |-> "not_found", status |-> ""]
    ELSE [kind |-> "write",
          status |-> IF row[1].status = "overdue" THEN "todo" ELSE row[1].status]

\* lines 238-244: UPDATE tasks SET deadline, status, updated_at WHERE id = ?
extend_deadline_commit(store, id, new_deadline, plan, t) ==
    IF id \in DOMAIN store
    THEN [store EXCEPT ![id].deadline = new_deadline,
                       ![id].status = plan.status,
                       ![id].updated_at = t]
    ELSE store

extend_deadline(id, new_deadline) ==
    LET row  == get_row(tasks, id)
        plan == extend_deadline_plan(row)
    IN  /\ IF plan.kind = "write"
           THEN /\ tasks' = extend_deadline_commit(tasks, id, new_deadline, plan, now)
                /\ notes' = Rearm(notes, {id}, plan.status)
           ELSE UNCHANGED <<tasks, notes>>
        /\ last' = Done("extend_deadline", id, NULL, row,
                        IF plan.kind = "write" THEN "ok" ELSE plan.kind, {})
        /\ UNCHANGED <<nextId, now, everDone, procs, base, log, tags_column, users, sightings, handlers>>

\* ---- edit_task -------------------------------------------------------------
\* the keys of the JSON object given to `tasks.py edit`: one allow-listed
\* column and four columns outside the allow-list
EditKeys == {"deadline", "status", "completed_at", "chat_id", "creator_id"}

EditData(K, deadline) ==
    [k \in K |-> CASE k = "deadline"     -> deadline
                   [] k = "status"       -> "overdue"
                   [] k = "completed_at" -> NULL
                   [] k = "chat_id"      -> MaxChat
                   [] k = "creator_id"   -> 2]

\* an allow-list that lets the status through
allowed_fields_with_status ==
    {"description", "title", "priority", "assignee_id", "assignee_telegram_id",
     "assignee_username", "deadline", "tags", "status"}

\* an allow-list that lets the chat through
allowed_fields_with_chat ==
    {"description", "title", "priority", "assignee_id", "assignee_telegram_id",
     "assignee_username", "deadline", "tags", "chat_id"}

\* lines 272-275
allowed_fields ==
    {"description", "title", "priority", "assignee_id", "assignee_telegram_id",
     "assignee_username", "deadline", "tags"}

\* lines 280-282: the column a key of updates names
edit_task_field(key) == IF key = "assignee_telegram_id" THEN "assignee_id" ELSE key

\* an edit_task that takes every key of updates for a column
edit_task_plan_unfiltered(row, updates) ==
    IF row = NULL THEN [kind |-> "not_found", fields |-> {}]
    ELSE IF DOMAIN updates = {} THEN [kind |-> "invalid", fields |-> {}]
    ELSE [kind |-> "write", fields |-> DOMAIN updates]

\* lines 266-291: the keys of updates that give a SET clause
edit_task_plan(row, updates) ==
    LET keys == {k \in DOMAIN updates : edit_task_field(k) \in allowed_fields}
    IN  IF row = NULL THEN [kind |-> "not_found", fields |-> {}]
        ELSE IF keys = {} THEN [kind |-> "invalid", fields |-> {}]
        ELSE [kind |-> "write", fields |-> keys]

\* lines 293-300: UPDATE tasks SET <fields>, updated_at WHERE id = ?
edit_task_commit(store, id, updates, fields, t) ==
    IF id \in DOMAIN store
    THEN [store EXCEPT ![id] =
            [c \in DOMAIN store[id] |->
                IF \E k \in fields : edit_task_field(k) = c
                THEN updates[CHOOSE k \in fields : edit_task_field(k) = c]
                ELSE IF c = "updated_at" THEN t
                ELSE store[id][c]]]
    ELSE store

edit_task(id, updates) ==
    LET row  == get_row(tasks, id)
        plan == edit_task_plan(row, updates)
    IN  /\ IF plan.kind = "write"
           THEN tasks' = edit_task_commit(tasks, id, updates, plan.fields, now)
           ELSE UNCHANGED tasks
        /\ last' = Done("edit_task", id, NULL, row,
                        IF plan.kind = "write" THEN "ok" ELSE plan.kind, {})
        /\ UNCHANGED <<nextId, now, notes, everDone, procs, base, log, tags_column, users, sightings, handlers>>

\* ---- check_overdue ---------------------------------------------------------
\* a reconciler that selects the overdue tasks again
check_overdue_select_again(store, chat_id, t) ==
    {i \in DOMAIN store :
        /\ store[i].deadline # NULL
        /\ DeadlineBefore(store[i].deadline, t)
        /\ store[i].status \in {"todo", "in_progress", "overdue"}
        /\ InScope(store[i], chat_id)}

\* lines 45-58: the ids the SELECT returns
check_overdue_select(store, chat_id, t) ==
    {i \in DOMAIN store :
        /\ store[i].deadline # NULL
        /\ DeadlineBefore(store[i].deadline, t)
        /\ store[i].status \in {"todo", "in_progress"}
        /\ InScope(store[i], chat_id)}

\* lines 61-68: UPDATE tasks SET status = 'overdue' WHERE id IN (ids)
check_overdue_commit(store, ids, t) ==
    [i \in DOMAIN store |->
        IF i \in ids THEN [store[i] EXCEPT !.status = "overdue", !.updated_at = t]
        ELSE store[i]]

\* lines 72-97: datetime.now(UTC) - fromisoformat(deadline) raises TypeError
\* for a deadline without an offset; main prints {"error": ...} and exits 1
check_overdue_result(rows) ==
    IF \E r \in rows : ~r.deadline[2] THEN "error" ELSE "ok"

check_overdue(chat_id) ==
    LET ids    == check_overdue_select(tasks, chat_id, now)
        result == check_overdue_result({tasks[i] : i \in ids})
        told   == IF result = "ok" THEN ids ELSE {}
    IN  /\ tasks' = check_overdue_commit(tasks, ids, now)
        /\ notes' = Seen(notes, told)
        /\ last' = Done("check_overdue", 0, chat_id, NULL, result, told)
        /\ UNCHANGED <<nextId, now, everDone, procs, base, log, tags_column, users, sightings, handlers>>

\* ---- the weekly review and its archival sweep --------------------------------
\* weekly_review.py line 38: timedelta(days=14)
RetentionDays == 14

\* A timestamp text is a date, a separator and a time of day; texts compare
\* character by character, so by date, then by separator (' ' sorts before
\* 'T'), then by time of day.  sep: 0 for ' ', 1 for 'T'
Stamp(t, sep) == <<t \div TicksPerDay, sep, t % TicksPerDay>>

TextLess(a, b) ==
    \/ a[1] < b[1]
    \/ a[1] = b[1] /\ a[2] < b[2]
    \/ a[1] = b[1] /\ a[2] = b[2] /\ a[3] < b[3]

\* SQLite's datetime('now'), "YYYY-MM-DD HH:MM:SS": what every INSERT and
\* UPDATE of tasks stores in updated_at (the rows keep the instant t)
sqlite_now(t) == Stamp(t, 0)

\* weekly_review.py line 38: strftime("%Y-%m-%dT%H:%M:%S") of now - 14 days
two_weeks_ago(t) == Stamp(t - RetentionDays * TicksPerDay, 1)

\* a sweep that does not look at the status
archive_select_any_status(store, chat_id, t) ==
    {i \in DOMAIN store :
        /\ store[i].chat_id = chat_id
        /\ TextLess(sqlite_now(store[i].updated_at), two_weeks_ago(t))}

\* lines 113-128: WHERE chat_id = ? AND status IN ('done', 'cancelled')
\* AND updated_at < ?
archive_select(store, chat_id, t) ==
    {i \in DOMAIN store :
        /\ store[i].chat_id = chat_id
        /\ store[i].status \in {"done", "cancelled"}
        /\ TextLess(sqlite_now(store[i].updated_at), two_weeks_ago(t))}

\* lines 32-132: the statistics are SELECTs; with --archive the rows
\* selected are deleted
generate_weekly_review(chat_id, archive) ==
    LET ids == IF archive THEN archive_select(tasks, chat_id, now) ELSE {}
    IN  /\ tasks' = [i \in DOMAIN tasks \ ids |-> tasks[i]]
        /\ last' = Done("weekly_review", 0, <<chat_id>>, NULL, "ok", {})
        /\ UNCHANGED <<nextId, now, notes, everDone, procs, base, log,
                       tags_column, users, sightings, handlers>>

\* ---- the callback router ---------------------------------------------------
\* A callback token is a prefix and the text after it: <<n>> when int() reads
\* it as n, NULL when int() raises ValueError.
\* menu.py lines 551-552
RouteAction(prefix) ==
    CASE prefix = "a_done_"   -> <<"done">>
      [] prefix = "a_start_"  -> <<"start">>
      [] prefix = "a_cancel_" -> <<"cancel">>
      [] OTHER                -> NULL

\* menu.py cmd_route: a task-action token runs `tasks.py <action> --id <n>`
\* (cmd_action) and then shows the task; every other token only reads the
\* store and sends a message
cmd_route(cb) ==
    IF RouteAction(cb.prefix) # NULL /\ cb.arg # NULL
    THEN update_status(cb.arg[1], CommandStatus(RouteAction(cb.prefix)[1]))
    ELSE /\ last' = Done("cmd_route", 0, NULL, NULL, "ok", {})
         /\ UNCHANGED <<tasks, nextId, now, notes, everDone, procs, base, log,
                        tags_column, users, sightings, handlers>>

\* ---- the responses of the router ------------------------------------------------
\* A token: for a task token the prefix and what int() makes of the text
\* after it; for every other token the whole word, with arg NULL
Tok(prefix, arg) == [prefix |-> prefix, arg |-> arg]

Menu(word) == Tok(word, NULL)

\* the button that leads back to the main view
Main == Menu("m_main")

\* send_message(target, message, buttons): the kind of text, the
\* callback_data of the buttons and, in the view of a task, the status the
\* text shows
Msg(kind, buttons) == [kind |-> kind, buttons |-> buttons, status |-> ""]

\* lines 283-297: the text of the view of a task, with STATUS_LABEL of the
\* row read
Detail(row, id, buttons) == [Msg("detail", buttons) EXCEPT !.status = row.status]

\* how a command ends: it has sent msgs and returns, or it has sent msgs and
\* an exception leaves it
Sent(msgs)  == [sent |-> msgs, raised |-> FALSE]
Raise(msgs) == [sent |-> msgs, raised |-> TRUE]

\* What a dispatch meets: store -- sqlite3 can open the database and finds
\* the table; timeout -- the script run by subprocess.run(..., timeout=...)
\* ends in time ("no"), or is killed at the timeout before its commit or
\* after it.  One thing fails at a time
Envs ==
    {e \in [store : BOOLEAN, timeout : {"no", "before_commit", "after_commit"}] :
        ~e.store => e.timeout = "no"}

Active == {"todo", "in_progress", "overdue"}

\* lines 136-152
cmd_main ==
    Sent(<<Msg("main", {Menu("m_create"), Menu("m_my"), Menu("m_all"),
                        Menu("m_overdue"), Menu("m_stats"), Menu("m_viz")})>>)

\* lines 155-166
cmd_create_prompt == Sent(<<Msg("create_prompt", {Main})>>)

\* lines 169-219: get_connection and the SELECT raise sqlite3.Error
cmd_my_tasks(store, target, user_id, env) ==
    IF ~env.store THEN Raise(<<>>)
    ELSE Sent(<<Msg("my_tasks",
                    {Tok("t_", <<i>>) : i \in {j \in DOMAIN store :
                        /\ store[j].assignee_id = user_id
                        /\ store[j].chat_id = target
                        /\ store[j].status \in Active}}
                    \cup {Menu("m_create"), Main})>>)

\* lines 222-268
cmd_all_tasks(store, target, env) ==
    IF ~env.store THEN Raise(<<>>)
    ELSE Sent(<<Msg("all_tasks",
                    {Tok("t_", <<i>>) : i \in {j \in DOMAIN store :
                        /\ store[j].chat_id = target
                        /\ store[j].status \in Active}}
                    \cup {Menu("m_create"), Main})>>)

\* lines 299-325: the buttons under the view of a task
cmd_task_detail_buttons(row, id) ==
    IF row.status \in Active
    THEN (IF row.status # "in_progress" THEN {Tok("a_start_", <<id>>)} ELSE {})
         \cup {Tok("a_done_", <<id>>)}
         \cup (IF row.deadline # NULL THEN {Tok("a_extend_", <<id>>)} ELSE {})
         \cup {Tok("a_edit_", <<id>>), Tok("a_cancel_", <<id>>),
                Menu("m_my"), Main}
    ELSE {Menu("m_my"), Main}

\* a view that takes the row for granted
cmd_task_detail_unchecked(store, task_id, env) ==
    IF ~env.store \/ task_id \notin DOMAIN store THEN Raise(<<>>)
    ELSE Sent(<<Detail(store[task_id], task_id,
                       cmd_task_detail_buttons(store[task_id], task_id))>>)

\* lines 271-327
cmd_task_detail(store, task_id, env) ==
    IF ~env.store THEN Raise(<<>>)
    ELSE IF task_id \notin DOMAIN store
    THEN Sent(<<Msg("not_found", {Main})>>)
    ELSE Sent(<<Detail(store[task_id], task_id,
                       cmd_task_detail_buttons(store[task_id], task_id))>>)

\* an action that shows the task as it was before the chained script ran
cmd_action_stale(store, after, task_id, env) ==
    IF env.timeout # "no" THEN Raise(<<>>)
    ELSE IF ~env.store \/ task_id \notin DOMAIN store
    THEN Sent(<<Msg("error", {Main})>>)
    ELSE LET detail == cmd_task_detail(store, task_id, env)
         IN  [sent   |-> <<Msg("label", {})>> \o detail.sent,
              raised |-> detail.raised]

\* lines 330-366.  store: the table the chained `tasks.py <action> --id <n>`
\* found; after: the table it left.  subprocess.run raises TimeoutExpired;
\* a script that cannot open the database prints {"error": ...}, as does
\* update_status for an id it does not find; otherwise the label goes out
\* without buttons, and then the view of the task
cmd_action(store, after, task_id, env) ==
    IF env.timeout # "no" THEN Raise(<<>>)
    ELSE IF ~env.store \/ task_id \notin DOMAIN store
    THEN Sent(<<Msg("error", {Main})>>)
    ELSE LET detail == cmd_task_detail(after, task_id, env)
         IN  [sent   |-> <<Msg("label", {})>> \o detail.sent,
              raised |-> detail.raised]

\* a statistics view without the way back
cmd_stats_no_menu(env) ==
    IF env.timeout # "no" THEN Raise(<<>>)
    ELSE Sent(<<Msg("stats", {Menu("m_viz")})>>)

\* lines 369-409: the error object of a failed tasks.py is read as
\* statistics without numbers
cmd_stats(env) ==
    IF env.timeout # "no" THEN Raise(<<>>)
    ELSE Sent(<<Msg("stats", {Menu("m_viz"), Main})>>)

\* tasks.py get_overdue, lines 444-474
get_overdue(store, chat_id, t) ==
    {i \in DOMAIN store :
        /\ InScope(store[i], chat_id)
        /\ store[i].deadline # NULL
        /\ DeadlineBefore(store[i].deadline, t)
        /\ store[i].status \in Active}

\* A deadline text may carry another offset than +00:00: <<r, TRUE, o>> is
\* the text whose clock reads r at offset +o, the instant r - o
Offset(d) == IF Len(d) = 3 THEN d[3] ELSE 0

Instant(d) == d[1] - Offset(d)

\* the rows of get_overdue in the order of the SELECT, ORDER BY deadline ASC
\* on the text: by the reading of the clock, then the text without offset
\* before the text with one, then by the offset; rows with the same text
\* come in the order of the table
RECURSIVE get_overdue_order(_, _)
get_overdue_order(store, ids) ==
    IF ids = {} THEN <<>>
    ELSE LET before(a, b) ==
                 \/ a[1] < b[1]
                 \/ a[1] = b[1] /\ ~a[2] /\ b[2]
                 \/ a[1] = b[1] /\ a[2] /\ b[2] /\ Offset(a) < Offset(b)
             first == CHOOSE i \in ids : \A j \in ids \ {i} :
                         \/ before(store[i].deadline, store[j].deadline)
                         \/ /\ store[i].deadline = store[j].deadline
                            /\ i < j
         IN  <<first>> \o get_overdue_order(store, ids \ {first})

\* `tasks.py overdue [--chat-id <n>]`, main lines 540-541: get_overdue, which
\* runs a SELECT and nothing else
overdue(chat_id) ==
    /\ last' = [Done("get_overdue", 0, chat_id, NULL, "ok", {})
                EXCEPT !.list = get_overdue_order(tasks,
                                    get_overdue(tasks, chat_id, now))]
    /\ UNCHANGED <<tasks, nextId, now, notes, everDone, procs, base, log,
                   tags_column, users, sightings, handlers>>

\* lines 412-450: the error object of a failed tasks.py has no "tasks"
cmd_overdue(store, target, env, t) ==
    IF env.timeout # "no" THEN Raise(<<>>)
    ELSE LET ids == IF env.store THEN get_overdue(store, <<target>>, t) ELSE {}
         IN  Sent(<<Msg("overdue", {Tok("t_", <<i>>) : i \in ids} \cup {Main})>>)

\* lines 453-466
cmd_viz ==
    Sent(<<Msg("viz", {Menu("v_status"), Menu("v_workload"), Menu("v_priority"),
                       Menu("v_trend"), Main})>>)

\* lines 469-510: the chart or the error of visualize.py, over the same
\* buttons
cmd_viz_chart(chart, env) ==
    IF chart = "v_dashboard" THEN cmd_viz
    ELSE IF env.timeout # "no" THEN Raise(<<>>)
    ELSE Sent(<<Msg("chart", {Menu("m_viz"), Main})>>)

\* a test of the caller's identity that lets everyone through
has_user_always(user_id) == TRUE

\* line 530: `if not user_id` -- None and 0
has_user(user_id) == user_id # NULL /\ user_id # <<0>>

\* lines 561-579: the prompt of a_edit_ / a_extend_, with the text after the
\* prefix put into the button that leads back to the task
cmd_route_prompt(kind, arg) == Sent(<<Msg(kind, {Tok("t_", arg), Main})>>)

\* lines 586-591
cmd_route_unknown == Sent(<<Msg("unknown", {Main})>>)

\* lines 516-591: what cmd_route sends for the token cb.  store, after: the
\* table before and after the chained tasks.py of a task action
cmd_route_reply(store, after, target, cb, user_id, env, t) ==
    CASE cb.prefix = "m_main"    -> cmd_main
      [] cb.prefix = "m_create"  -> cmd_create_prompt
      [] cb.prefix = "m_my"      ->
            IF ~has_user(user_id) THEN Sent(<<Msg("no_user", {Main})>>)
            ELSE cmd_my_tasks(store, target, user_id, env)
      [] cb.prefix = "m_all"     -> cmd_all_tasks(store, target, env)
      [] cb.prefix = "m_overdue" -> cmd_overdue(store, target, env, t)
      [] cb.prefix = "m_stats"   -> cmd_stats(env)
      [] cb.prefix = "m_viz"     -> cmd_viz
      [] cb.prefix = "t_" /\ cb.arg # NULL ->
            cmd_task_detail(store, cb.arg[1], env)
      [] RouteAction(cb.prefix) # NULL /\ cb.arg # NULL ->
            cmd_action(store, after, cb.arg[1], env)
      [] cb.prefix = "a_edit_"   -> cmd_route_prompt("edit_prompt", cb.arg)
      [] cb.prefix = "a_extend_" -> cmd_route_prompt("extend_prompt", cb.arg)
      [] cb.prefix \in {"v_dashboard", "v_status"} -> cmd_viz_chart(cb.prefix, env)
      [] OTHER                   -> cmd_route_unknown

\* whether the dispatch of cb runs an UPDATE that is committed: a task action
\* with an id, a store that can be reached, a script not killed before its
\* commit, and a row whose status differs
cmd_route_writes(store, cb, env, t) ==
    /\ RouteAction(cb.prefix) # NULL
    /\ cb.arg # NULL
    /\ env.store
    /\ env.timeout # "before_commit"
    /\ update_status_plan(get_row(store, cb.arg[1]),
                          CommandStatus(RouteAction(cb.prefix)[1]), t).kind = "write"

\* a router whose overdue view reconciles the tasks it lists
cmd_route_store_reconciling(store, cb, env, t) ==
    IF cb.prefix = "m_overdue" /\ env.store
    THEN [i \in DOMAIN store |->
            IF i \in get_overdue(store, NULL, t)
            THEN [store[i] EXCEPT !.status = "overdue"] ELSE store[i]]
    ELSE IF cmd_route_writes(store, cb, env, t)
    THEN update_status_commit(store, cb.arg[1],
             update_status_plan(get_row(store, cb.arg[1]),
                                CommandStatus(RouteAction(cb.prefix)[1]), t), t)
    ELSE store

\* the table after the dispatch of cb: cmd_action (330-338) runs
\* `tasks.py <action> --id <n>`; no other branch of cmd_route (516-591) runs
\* a statement that writes
cmd_route_store(store, cb, env, t) ==
    IF cmd_route_writes(store, cb, env, t)
    THEN update_status_commit(store, cb.arg[1],
             update_status_plan(get_row(store, cb.arg[1]),
                                CommandStatus(RouteAction(cb.prefix)[1]), t), t)
    ELSE store

\* `menu.py --target <target> route <cb> [--user-id <n>]`, main lines
\* 633-634 and 660-665: cmd_route, and the handler that turns an exception
\* into {"ok": false, "error": ...} on stdout.  The tasks.py of a task
\* action is update_status in a process of its own
route_transition(target, cb, user_id, env) ==
    LET acts   == RouteAction(cb.prefix) # NULL /\ cb.arg # NULL
        id     == IF cb.arg # NULL THEN cb.arg[1] ELSE 0
        status == IF acts THEN CommandStatus(RouteAction(cb.prefix)[1]) ELSE ""
        writes == cmd_route_writes(tasks, cb, env, now)
        after  == cmd_route_store(tasks, cb, env, now)
        reply  == cmd_route_reply(tasks, after, target, cb, user_id, env, now)
    IN  /\ tasks' = after
        /\ notes' = IF writes THEN Rearm(notes, {id}, status) ELSE notes
        /\ everDone' = IF writes /\ status = "done" THEN everDone \cup {id}
                       ELSE everDone
        /\ last' = [Done("route", id, <<target>>, NULL,
                         IF reply.raised THEN "error" ELSE "ok", {})
                    EXCEPT !.args = <<cb, user_id, env>>,
                           !.sent = reply.sent,
                           !.raised = reply.raised]
        /\ UNCHANGED <<nextId, now, procs, base, log, tags_column, users, sightings>>

\* `menu.py --target <chat> route <callback_data> [--user-id <n>]` run from a
\* shell
route(target, cb, user_id, env) ==
    /\ route_transition(target, cb, user_id, env)
    /\ UNCHANGED handlers

\* ---- the users directory: upsert_user ---------------------------------------------
\* init_db.py lines 26-35: the columns of users that upsert_user and
\* search_user read or write.  A name is NULL or <<text>>, text a sequence of
\* characters that may be empty; chat_ids is the list json.loads reads
UserRow(username, first_name, last_name, chat_ids) ==
    [username     |-> username,
     first_name   |-> first_name,
     last_name    |-> last_name,
     display_name |-> NULL,
     chat_ids     |-> chat_ids]

\* the elements of a list
Elems(list) == {list[n] : n \in DOMAIN list}

\* SQL COALESCE(?, column)
COALESCE(new, old) == IF new # NULL THEN new ELSE old

\* lines 52-61 and 74: what the SELECT decides: the statement to run and the
\* chat_ids to write.  `if chat_id` takes None and 0 for no chat
upsert_user_plan(store, telegram_id, chat_id) ==
    IF telegram_id \in DOMAIN store
    THEN [kind     |-> "update",
          chat_ids |-> IF /\ ChatFilter(chat_id)
                          /\ chat_id[1] \notin Elems(store[telegram_id].chat_ids)
                       THEN Append(store[telegram_id].chat_ids, chat_id[1])
                       ELSE store[telegram_id].chat_ids]
    ELSE [kind     |-> "insert",
          chat_ids |-> IF ChatFilter(chat_id) THEN <<chat_id[1]>> ELSE <<>>]

\* lines 63-81: the UPDATE (COALESCE on the row as it is when the statement
\* runs, chat_ids as planned) or the INSERT, and the commit
upsert_user_commit(store, telegram_id, username, first_name, last_name, plan) ==
    IF plan.kind = "update"
    THEN IF telegram_id \in DOMAIN store
         THEN [store EXCEPT
                 ![telegram_id].username   = COALESCE(username, @),
                 ![telegram_id].first_name = COALESCE(first_name, @),
                 ![telegram_id].last_name  = COALESCE(last_name, @),
                 ![telegram_id].chat_ids   = plan.chat_ids]
         ELSE store
    ELSE IF telegram_id \in DOMAIN store THEN store
    ELSE [i \in DOMAIN store \cup {telegram_id} |->
            IF i = telegram_id
            THEN UserRow(username, first_name, last_name, plan.chat_ids)
            ELSE store[i]]

\* the chat ids given to the completed calls for a user, with one more
Sighted(seen, telegram_id, chat_id) ==
    [i \in DOMAIN seen \cup {telegram_id} |->
        (IF i \in DOMAIN seen THEN seen[i] ELSE {})
        \cup (IF i = telegram_id /\ chat_id # NULL THEN {chat_id[1]} ELSE {})]

\* `resolve_user.py upsert --telegram-id .. [--username ..] [--first-name ..]
\* [--last-name ..] [--chat-id ..]`, lines 47-87, run without another process
\* in between
upsert_user(telegram_id, username, first_name, last_name, chat_id) ==
    LET plan == upsert_user_plan(users, telegram_id, chat_id)
    IN  /\ users' = upsert_user_commit(users, telegram_id, username, first_name,
                                       last_name, plan)
        /\ sightings' = Sighted(sightings, telegram_id, chat_id)
        /\ last' = [Done("upsert_user", telegram_id, chat_id, NULL, "ok", {})
                    EXCEPT !.args = <<username, first_name, last_name>>]
        /\ UNCHANGED <<tasks, nextId, now, notes, everDone, procs, base, log,
                       tags_column, handlers>>

\* ---- the users directory: search_user ---------------------------------------------
\* difflib.SequenceMatcher.get_matching_blocks without junk.  blocks: the
\* blocks a[i..i+k-1] = b[j..j+k-1], as <<i, j, k>>.  find_longest_match
\* takes the longest block, of these the one that starts first in a, of
\* these the one that starts first in b; then the same to the left and to
\* the right of it.  The number of characters matched
RECURSIVE matches(_, _)
matches(a, b) ==
    LET blocks ==
            {x \in (1..Len(a)) \X (1..Len(b)) \X (1..Len(a)) :
                /\ x[1] + x[3] - 1 <= Len(a)
                /\ x[2] + x[3] - 1 <= Len(b)
                /\ SubSeq(a, x[1], x[1] + x[3] - 1)
                   = SubSeq(b, x[2], x[2] + x[3] - 1)}
    IN  IF blocks = {} THEN 0
        ELSE LET x == CHOOSE x \in blocks : \A y \in blocks :
                         \/ x[3] > y[3]
                         \/ /\ x[3] = y[3]
                            /\ \/ x[1] < y[1]
                               \/ x[1] = y[1] /\ x[2] <= y[2]
             IN  x[3]
                 + matches(SubSeq(a, 1, x[1] - 1), SubSeq(b, 1, x[2] - 1))
                 + matches(SubSeq(a, x[1] + x[3], Len(a)),
                           SubSeq(b, x[2] + x[3], Len(b)))

\* SequenceMatcher(None, a, b).ratio() = 2.0 * matches / (len(a) + len(b)),
\* and 1.0 for two empty texts: the fraction <<numerator, denominator>>
ratio(a, b) ==
    IF Len(a) + Len(b) = 0 THEN <<1, 1>>
    ELSE <<2 * matches(a, b), Len(a) + Len(b)>>

\* the ratio of every two texts of the letters that names and queries are
\* written in, worked out once
ratios ==
    LET NameTexts == UNION {[1..n -> {"a", "b", " "}] : n \in 0..MaxText}
    IN  [a \in NameTexts, b \in NameTexts |-> ratio(a, b)]

\* s >= t, s > t for two fractions
ScoreGE(s, t) == s[1] * t[2] >= t[1] * s[2]

ScoreGT(s, t) == s[1] * t[2] > t[1] * s[2]

\* line 157: the score from which a fuzzy hit counts as exact
ExactScore == <<95, 100>>

\* lines 16-17 and 125-127: the configuration; a file without the keys gives
\* the defaults
DEFAULT_THRESHOLD == <<6, 10>>

DEFAULT_MAX_SUGGESTIONS == 5

\* line 95: query.lower().strip().lstrip("@")
search_user_query(query) == lstrip(strip(lower(query)), {"@"})

\* `if user.get(...)`: the value is neither None nor empty
Truthy(name) == name # NULL /\ name # <<<<>>>>

\* lines 131-141: the texts a user is compared by
search_user_candidates(user) ==
    (IF Truthy(user.username) THEN <<lower(user.username[1])>> ELSE <<>>)
    \o (IF Truthy(user.first_name) THEN <<lower(user.first_name[1])>> ELSE <<>>)
    \o (IF Truthy(user.last_name) THEN <<lower(user.last_name[1])>> ELSE <<>>)
    \o (IF Truthy(user.first_name) /\ Truthy(user.last_name)
        THEN <<lower(user.first_name[1] \o <<" ">> \o user.last_name[1])>>
        ELSE <<>>)
    \o (IF Truthy(user.display_name) THEN <<lower(user.display_name[1])>> ELSE <<>>)

\* lines 143-147: the best score over the texts, from 0.0
RECURSIVE best_score_loop(_, _, _)
best_score_loop(q, candidates, best_score) ==
    IF candidates = <<>> THEN best_score
    ELSE LET score == ratios[q, Head(candidates)]
         IN  best_score_loop(q, Tail(candidates),
                             IF ScoreGT(score, best_score) THEN score
                             ELSE best_score)

best_score(user, q) == best_score_loop(q, search_user_candidates(user), <<0, 1>>)

\* a search that keeps every user, whatever the score
search_user_scored_all(store, ids, q, threshold) ==
    [i \in ids |-> best_score(store[i], q)]

\* lines 129-150: scored, the users kept, each with its best score
search_user_scored(store, ids, q, threshold) ==
    LET score == [i \in ids |-> best_score(store[i], q)]
    IN  [i \in {j \in ids : ScoreGE(score[j], threshold)} |-> score[i]]

\* a search that leaves the users in the order of the table
RECURSIVE search_user_sort_by_id(_, _)
search_user_sort_by_id(scored, ids) ==
    IF ids = {} THEN <<>>
    ELSE LET first == CHOOSE i \in ids : \A j \in ids : i <= j
         IN  <<first>> \o search_user_sort_by_id(scored, ids \ {first})

\* line 152: scored.sort(key=score, reverse=True): by score, the greater
\* first; a stable sort, so users of one score stay in the order of the table
RECURSIVE search_user_sort(_, _)
search_user_sort(scored, ids) ==
    IF ids = {} THEN <<>>
    ELSE LET first == CHOOSE i \in ids : \A j \in ids \ {i} :
                         \/ ScoreGT(scored[i], scored[j])
                         \/ ~ScoreGT(scored[j], scored[i]) /\ i < j
         IN  <<first>> \o search_user_sort(scored, ids \ {first})

\* lines 90-163: the status of the result and the users in it.  exact, lines
\* 98-101: SELECT * FROM users WHERE LOWER(username) = ? ; fetchone(): of the
\* rows that match, the first of the table.  all_users, lines 109-118: the
\* users scored: those of the chat, or all of them when no chat is given
\* (`if chat_id`)
search_user_result(store, query, chat_id, config) ==
    LET q      == search_user_query(query)
        found  == {i \in DOMAIN store :
                      /\ store[i].username # NULL
                      /\ lower(store[i].username[1]) = q}
        exact  == IF found = {} THEN NULL
                  ELSE <<CHOOSE i \in found : \A j \in found : i <= j>>
        all_users == {i \in DOMAIN store :
                         ChatFilter(chat_id)
                         => chat_id[1] \in Elems(store[i].chat_ids)}
        scored == search_user_scored(store, all_users, q, config.fuzzy_threshold)
        sorted == search_user_sort(scored, DOMAIN scored)
    IN  IF /\ exact # NULL
           /\ (chat_id = NULL \/ chat_id[1] \in Elems(store[exact[1]].chat_ids))
        THEN [status |-> "EXACT_MATCH", users |-> exact]
        ELSE IF sorted = <<>>
        THEN [status |-> "NOT_FOUND", users |-> <<>>]
        ELSE IF ScoreGE(scored[sorted[1]], ExactScore)
        THEN [status |-> "EXACT_MATCH", users |-> <<sorted[1]>>]
        ELSE [status |-> "SUGGESTIONS",
              users  |-> SubSeq(sorted, 1,
                                IF Len(sorted) < config.max_suggestions
                                THEN Len(sorted) ELSE config.max_suggestions)]

\* `resolve_user.py search <query> [--chat-id <n>]`, with the configuration
\* file as it is
search_user(query, chat_id, config) ==
    LET result == search_user_result(users, query, chat_id, config)
    IN  /\ last' = [Done("search_user", 0, chat_id, NULL, result.status, {})
                    EXCEPT !.list = result.users,
                           !.args = <<query, config>>]
        /\ UNCHANGED <<tasks, nextId, now, notes, everDone, procs, base, log,
                       tags_column, users, sightings, handlers>>

\* ---- the clock ---------------------------------------------------------------
Tick ==
    /\ now < MaxTime
    /\ now' = now + 1
    /\ last' = NoOp
    /\ UNCHANGED <<tasks, nextId, notes, everDone, procs, base, log, tags_column, users, sightings, handlers>>

\* ---- Spec: operations run one after the other ---------------------------------
IdArgs   == 1..MaxTasks      \* --id, also of rows that do not exist
ChatArgs == {NULL} \cup {<<c>> : c \in ChatIds}

Init ==
    /\ tasks = <<>>
    /\ nextId = 0
    /\ now = 0
    /\ last = NoOp
    /\ notes = <<>>
    /\ everDone = {}
    /\ procs = [p \in Procs |-> Idle]
    /\ base = <<>>
    /\ log = <<>>
    \* the database file: the tasks table as init_db.py creates it, or one
    \* that also has the column `tags` add_task writes (CREATE TABLE IF NOT
    \* EXISTS leaves a table that exists as it is)
    /\ tags_column \in BOOLEAN
    /\ users = <<>>
    /\ sightings = <<>>
    /\ handlers = <<>>

Next ==
    \/ \E c \in ChatArgs, d \in {NULL} \cup Deadlines :
          add_task(AddData(AddKeys, c, d, NULL))
    \/ \E k \in AddKeys : add_task(AddData(AddKeys \ {k}, <<1>>, NULL, NULL))
    \/ \E id \in IdArgs, a \in Actions : update_status(id, CommandStatus(a))
    \/ \E id \in IdArgs, d \in Deadlines : extend_deadline(id, d)
    \/ \E id \in IdArgs, d \in {NULL} \cup Deadlines :
          edit_task(id, EditData(EditKeys, d))
    \/ \E id \in IdArgs : edit_task(id, EditData(EditKeys \ {"deadline"}, NULL))
    \/ \E c \in ChatArgs : check_overdue(c)
    \* the callback tokens given: every task-action token with an id, one with
    \* text that is no number, and tokens of the edit, extend and detail buttons
    \/ \E cb \in [prefix : {"a_done_", "a_start_", "a_cancel_"},
                  arg : {<<i>> : i \in IdArgs}]
                 \cup {[prefix |-> "a_done_", arg |-> NULL],
                       [prefix |-> "a_extend_", arg |-> <<1>>],
                       [prefix |-> "a_edit_", arg |-> <<1>>],
                       [prefix |-> "t_", arg |-> <<1>>]} :
          cmd_route(cb)
    \/ Tick

Spec == Init /\ [][Next]_vars

\* ---- CreateSpec: add_task on every shape of input ------------------------------
CreateKeys == AddKeys \cup {"creator_telegram_id", "priority"}

\* every value with every key but creator_telegram_id present, and every set
\* of keys with one value each
CreateNext ==
    \/ \E c \in ChatArgs, d \in {NULL} \cup Deadlines,
          p \in {NULL} \cup {<<q>> : q \in Priorities \cup {"urgent"}} :
          add_task(AddData(AddKeys \cup {"priority"}, c, d, p))
    \/ \E K \in SUBSET CreateKeys : add_task(AddData(K, <<1>>, NULL, <<"high">>))
    \/ Tick

CreateSpec == Init /\ [][CreateNext]_vars

\* ---- TagSpec: normalize_tags on every list of tags ----------------------------
\* the texts of at most n characters; the characters: '#', a blank, a
\* capital letter and its small letter
RECURSIVE Texts(_)
Texts(n) ==
    IF n = 0 THEN {<<>>}
    ELSE Texts(n - 1)
         \cup {Append(t, c) : t \in Texts(n - 1), c \in {"#", " ", "A", "a"}}

RECURSIVE Lists(_, _)
Lists(S, n) ==
    IF n = 0 THEN {<<>>}
    ELSE Lists(S, n - 1) \cup {Append(l, t) : l \in Lists(S, n - 1), t \in S}

\* ["#Urgent", " urgent ", "URGENT"], a letter for the word
TagsExample == << <<"#", "A">>, <<" ", "a", " ">>, <<"A">> >>

\* the database as in Init, and a list of tags given: every list of at most
\* MaxTags texts of at most MaxTagLen characters, and the example
TagInit ==
    /\ tasks = <<>>
    /\ nextId = 0
    /\ now = 0
    /\ \E tags \in Lists(Texts(MaxTagLen), MaxTags) \cup {TagsExample} :
          last = [NoOp EXCEPT !.op = "tags", !.list = tags]
    /\ notes = <<>>
    /\ everDone = {}
    /\ procs = [p \in Procs |-> Idle]
    /\ base = <<>>
    /\ log = <<>>
    /\ tags_column \in BOOLEAN
    /\ users = <<>>
    /\ sightings = <<>>
    /\ handlers = <<>>

TagNext ==
    \/ normalize_tags_call
    \/ normalize_tags_again

TagSpec == TagInit /\ [][TagNext]_vars

\* ---- ListSpec: tasks of every priority, deadline and assignee, listed --------
\* the JSON object given to `tasks.py add`, with an assignee and a priority
ListData(assignee, chat, deadline, priority) ==
    [k \in AddKeys \cup {"assignee_id", "priority"} |->
        CASE k = "description" -> <<"text">>
          [] k = "creator_id"  -> <<1>>
          [] k = "assignee_id" -> assignee
          [] k = "chat_id"     -> chat
          [] k = "deadline"    -> deadline
          [] k = "priority"    -> priority]

\* --assignee-id, also of a user no task is assigned to
AssigneeArgs == {NULL, <<1>>, <<2>>}

\* --status
StatusArgs == {NULL, <<{"todo"}>>, <<{"done"}>>, <<{"todo", "done"}>>}

ListNext ==
    \/ \E a \in {NULL, <<1>>}, c \in ChatIds, d \in {NULL} \cup Deadlines,
          p \in {NULL} \cup {<<q>> : q \in Priorities} :
          add_task(ListData(a, <<c>>, d, p))
    \/ \E id \in IdArgs : update_status(id, "done")
    \/ \E a \in AssigneeArgs, c \in ChatArgs, s \in StatusArgs : list_tasks(a, c, s)

ListSpec == Init /\ [][ListNext]_vars

\* ---- RouteSpec: the router on every token -------------------------------------
\* the tokens given; the text after the prefix of a task token: the number of
\* a task, of no task, or no number
RouteTokens ==
    {Menu(w) : w \in {"m_main", "m_create", "m_my", "m_all", "m_overdue",
                      "m_stats", "m_viz", "v_dashboard", "v_status", "zzz"}}
    \cup {Tok(p, a) : p \in {"t_", "a_done_", "a_start_", "a_cancel_",
                              "a_edit_", "a_extend_"},
                      a \in {NULL} \cup {<<i>> : i \in 1..(MaxRouteTasks + 1)}}

RouteNext ==
    \/ /\ nextId < MaxRouteTasks
       /\ \E a \in {NULL, <<1>>}, c \in ChatIds, d \in {NULL, <<0, TRUE>>} :
             add_task(ListData(a, <<c>>, d, <<"medium">>))
    \/ \E cb \in RouteTokens, u \in {NULL, <<0>>, <<1>>}, env \in Envs :
          route(1, cb, u, env)
    \/ Tick

RouteSpec == Init /\ [][RouteNext]_vars

\* ---- OverdueSpec: tasks with deadlines of every form, reconciled and listed ------
\* the deadlines given: those of Spec, and the last reading of the clock
\* written at an offset of one reading, an instant that passes earlier
OverdueNext ==
    \/ \E c \in ChatIds, d \in {NULL} \cup Deadlines \cup {<<MaxTime, TRUE, 1>>} :
          add_task(AddData(AddKeys, <<c>>, d, NULL))
    \/ \E id \in IdArgs : update_status(id, "done")
    \/ \E id \in IdArgs : edit_task(id, EditData({"deadline"}, <<MaxTime, TRUE>>))
    \/ check_overdue(NULL)
    \/ \E c \in ChatArgs : overdue(c)
    \/ Tick

OverdueSpec == Init /\ [][OverdueNext]_vars

\* ---- UpsertSpec: one user, sighted again and again ------------------------------
\* --username, --first-name, --last-name: not given, empty, or a name
NameArgs == {NULL, <<<<>>>>, <<<<"a">>>>, <<<<"b">>>>}

UpsertNext ==
    \E u \in NameArgs, f \in NameArgs, l \in {NULL, <<<<"a">>>>}, c \in ChatArgs :
        upsert_user(1, u, f, l, c)

UpsertSpec == Init /\ [][UpsertNext]_vars

\* ---- SearchSpec: users registered, then searched for --------------------------------
\* names: the names a user is first sighted with, <<username, first_name,
\* last_name>>.  query: the texts searched for.  config: config.json without
\* the keys, and with both
SearchNext ==
    \/ \E id \in 1..MaxUsers, c \in ChatIds,
          names \in {<< <<<<"A", "b">>>>, NULL, NULL >>,
                     << <<<<"b", "a">>>>, NULL, NULL >>,
                     << NULL, <<<<"a", "b">>>>, NULL >>,
                     << NULL, <<<<"A">>>>, NULL >>,
                     << NULL, <<<<"a">>>>, <<<<"b">>>> >>} :
          /\ id \notin DOMAIN users
          /\ upsert_user(id, names[1], names[2], names[3], <<c>>)
    \/ \E query \in {<<" ", "@", "a", "B", " ">>, <<"a">>}, c \in ChatArgs,
          config \in {[fuzzy_threshold |-> DEFAULT_THRESHOLD,
                       max_suggestions |-> DEFAULT_MAX_SUGGESTIONS],
                      [fuzzy_threshold |-> <<7, 10>>, max_suggestions |-> 1],
                      [fuzzy_threshold |-> DEFAULT_THRESHOLD,
                       max_suggestions |-> 2]} :
          search_user(query, c, config)

SearchSpec == Init /\ [][SearchNext]_vars

\* ---- tg_handler.py: the updates of Telegram, each handled in a thread ---------
\* line 37.  A text is a sequence of characters
ALLOWED_USERS ==
    {<<"s", "a", "d", "i", "n", "d", "e", "e", "d">>,
     <<"e", "s", "h", "a", "n", "c", "h", "i", "k">>,
     <<"s", "e", "g", "o", "v", "c", "h", "i", "k">>}

\* line 40.  The Cyrillic letters of the third trigger are written by their
\* names: em, ie, en, yu
MENU_TRIGGERS ==
    {<<"/", "s", "t", "a", "r", "t">>, <<"/", "m", "e", "n", "u">>,
     <<"em", "ie", "en", "yu">>, <<"m", "e", "n", "u">>}

\* line 31
MAX_WORKERS == 4

\* an access check that lets every sender through
is_allowed_anyone(user) == TRUE

\* lines 108-113.  user is NULL for an update without `from` (cq.get("from",
\* {}) gives {}), else the record of the sender, username NULL or <<text>>
is_allowed(user) ==
    /\ user # NULL
    /\ LET username == lower(IF user.username = NULL THEN <<>>
                             ELSE user.username[1])
       IN  username \in ALLOWED_USERS

\* lines 390-406: the polling loop starts a thread for the update
process_update(update) ==
    /\ Len(handlers) < MaxUpdates
    /\ handlers' = Append(handlers, [update |-> update, pc |-> "start",
                                     ran |-> "", text |-> update.text])
    /\ UNCHANGED <<tasks, nextId, now, last, notes, everDone, procs, base, log,
                   tags_column, users, sightings>>

\* a step of thread n that touches nothing but the thread
handler_goes(n, pc) ==
    /\ handlers' = [handlers EXCEPT ![n].pc = pc]
    /\ UNCHANGED <<tasks, nextId, now, last, notes, everDone, procs, base, log,
                   tags_column, users, sightings>>

\* line 201: answerCallbackQuery, before the access check
handle_callback_query_answer(n) ==
    /\ handlers[n].update.kind = "callback_query"
    /\ handlers[n].pc = "start"
    /\ handler_goes(n, "answered")

\* lines 204-206
handle_callback_query_check(n) ==
    /\ handlers[n].update.kind = "callback_query"
    /\ handlers[n].pc = "answered"
    /\ handler_goes(n, IF is_allowed(handlers[n].update.from) THEN "allowed"
                       ELSE "blocked")

\* lines 209-224: menu.py --target <chat_id> route <callback_data> --user-id
\* <user_id>, waited for; whatever it returns is logged
handle_callback_query_route(n, env) ==
    /\ handlers[n].update.kind = "callback_query"
    /\ handlers[n].pc = "allowed"
    /\ route_transition(handlers[n].update.chat, handlers[n].update.data,
                        IF handlers[n].update.from = NULL THEN NULL
                        ELSE <<handlers[n].update.from.id>>,
                        env)
    /\ handlers' = [handlers EXCEPT ![n].pc = "done", ![n].ran = "route"]

\* lines 240-242
handle_message_check(n) ==
    /\ handlers[n].update.kind = "message"
    /\ handlers[n].pc = "start"
    /\ handler_goes(n, IF is_allowed(handlers[n].update.from) THEN "allowed"
                       ELSE "ignored")

\* lines 245-291: a message of a group that does not mention the bot and is
\* no voice message is dropped; a menu trigger shows the main menu; a voice
\* message is transcribed; an empty text is dropped; any other text goes to
\* the agent.  text is the text with the mention taken out
handle_message_text(n) ==
    LET u == handlers[n].update
        text == handlers[n].text
    IN  /\ u.kind = "message"
        /\ handlers[n].pc = "allowed"
        /\ IF u.chat_type \in {"group", "supergroup"} /\ ~u.mentioned /\ ~u.voice
           THEN handler_goes(n, "done")
           ELSE IF strip(lower(text)) \in MENU_TRIGGERS
           THEN /\ handlers' = [handlers EXCEPT ![n].pc = "done", ![n].ran = "main"]
                /\ last' = [Done("main", 0, <<u.chat>>, NULL, "ok", {})
                            EXCEPT !.sent = cmd_main.sent]
                /\ UNCHANGED <<tasks, nextId, now, notes, everDone, procs, base,
                               log, tags_column, users, sightings>>
           ELSE IF u.voice THEN handler_goes(n, "voice")
           ELSE IF text = <<>> THEN handler_goes(n, "done")
           ELSE handler_goes(n, "forward")

\* lines 274-291: transcribe_voice gives None, an empty text or a text
handle_message_voice(n, heard) ==
    /\ handlers[n].update.kind = "message"
    /\ handlers[n].pc = "voice"
    /\ handlers' = [handlers EXCEPT
                       ![n].pc = IF heard = NULL \/ heard = <<<<>>>> THEN "done"
                                 ELSE "forward",
                       ![n].text = IF heard = NULL THEN <<>> ELSE heard[1]]
    /\ UNCHANGED <<tasks, nextId, now, last, notes, everDone, procs, base, log,
                   tags_column, users, sightings>>

\* lines 303-315: _agent_sem.acquire(), then `openclaw agent -m <annotated>`
handle_message_agent(n) ==
    /\ handlers[n].update.kind = "message"
    /\ handlers[n].pc = "forward"
    /\ Cardinality({m \in DOMAIN handlers : handlers[m].pc = "agent"}) < MAX_WORKERS
    /\ handlers' = [handlers EXCEPT ![n].pc = "agent", ![n].ran = "agent"]
    /\ UNCHANGED <<tasks, nextId, now, last, notes, everDone, procs, base, log,
                   tags_column, users, sightings>>

\* the agent, while it runs, creates a task for the sender in the chat of the
\* message (`tasks.py add`)
agent_add_task(n) ==
    /\ handlers[n].pc = "agent"
    /\ nextId < MaxRouteTasks
    /\ add_task(AddData(AddKeys, <<handlers[n].update.chat>>, NULL, NULL))

\* lines 316-334: the agent has ended, in whatever way; _agent_sem.release()
handle_message_release(n) ==
    /\ handlers[n].update.kind = "message"
    /\ handlers[n].pc = "agent"
    /\ handler_goes(n, "done")

\* ---- HandlerSpec: updates of allowed and of other senders, in any order ---------
\* The updates received: a button pressed, or a message.  `from` of an
\* update: none, a sender without username, an allowed sender whose username
\* Telegram shows with a capital, and a sender whose username is an allowed
\* one but for its last letter
HandlerNext ==
    \/ LET Senders ==
               {NULL,
                [id |-> 1, username |-> NULL],
                [id |-> 1, username |->
                    <<<<"S", "a", "d", "i", "n", "d", "e", "e", "d">>>>],
                [id |-> 0, username |->
                    <<<<"s", "a", "d", "i", "n", "d", "e", "e">>>>]}
           Updates ==
               {[kind |-> "callback_query", from |-> s, chat |-> 1, data |-> d,
                 chat_type |-> "private", mentioned |-> FALSE, voice |-> FALSE,
                 text |-> <<>>] :
                   s \in Senders, d \in {Tok("a_done_", <<1>>), Menu("m_all")}}
               \cup
               {[kind |-> "message", from |-> s, chat |-> 1, data |-> NULL,
                 chat_type |-> m[1], mentioned |-> FALSE, voice |-> m[2],
                 text |-> m[3]] :
                   s \in Senders,
                   m \in {<<"private", FALSE, <<"a">>>>,
                          <<"private", FALSE, <<"/", "M", "e", "n", "u", " ">>>>,
                          <<"private", TRUE, <<>>>>,
                          <<"group", FALSE, <<"a">>>>}}
       IN  \E update \in Updates : process_update(update)
    \/ \E n \in DOMAIN handlers : handle_callback_query_answer(n)
    \/ \E n \in DOMAIN handlers : handle_callback_query_check(n)
    \/ \E n \in DOMAIN handlers, env \in Envs : handle_callback_query_route(n, env)
    \/ \E n \in DOMAIN handlers : handle_message_check(n)
    \/ \E n \in DOMAIN handlers : handle_message_text(n)
    \/ \E n \in DOMAIN handlers, heard \in {NULL, <<<<>>>>, <<<<"a">>>>} :
          handle_message_voice(n, heard)
    \/ \E n \in DOMAIN handlers : handle_message_agent(n)
    \/ \E n \in DOMAIN handlers : agent_add_task(n)
    \/ \E n \in DOMAIN handlers : handle_message_release(n)

HandlerSpec == Init /\ [][HandlerNext]_vars

\* ---- ArchiveSpec: tasks, their status changes and the weekly review -----------
\* the instants at which an operation runs: the first readings of the clock,
\* and the readings one retention window after the first
ArchiveTick ==
    LET ArchiveTimes ==
            (0..MaxSpan) \cup
            (RetentionDays * TicksPerDay .. RetentionDays * TicksPerDay + MaxSpan)
    IN
    /\ \E t \in ArchiveTimes : t > now
    /\ now' = CHOOSE t \in ArchiveTimes :
                 t > now /\ \A u \in ArchiveTimes : u > now => t <= u
    /\ last' = NoOp
    /\ UNCHANGED <<tasks, nextId, notes, everDone, procs, base, log, tags_column, users, sightings, handlers>>

ArchiveNext ==
    \/ \E c \in ChatIds, d \in {NULL, <<0, TRUE>>} :
          add_task(AddData(AddKeys, <<c>>, d, NULL))
    \/ \E id \in IdArgs, a \in Actions : update_status(id, CommandStatus(a))
    \/ check_overdue(NULL)
    \/ \E c \in ChatIds, archive \in BOOLEAN : generate_weekly_review(c, archive)
    \/ ArchiveTick

ArchiveSpec == Init /\ [][ArchiveNext]_vars

\* ---- ConcSpec: the operations of several processes interleave ----------------
\* Each script is its own process with its own connection.  The SELECT of an
\* operation is one step; its UPDATE and commit (SQLite serialises writers)
\* is another.  What a process holds between the two is in procs[p].
Quiet == \A p \in Procs : procs[p] = Idle

Entry(op, id, arg) == [op |-> op, id |-> id, arg |-> arg, at |-> now]

\* An episode is a maximal stretch during which some operation is running.
\* An operation starts: it begins an episode, or joins the running one; the
\* episode is followed as long as it has at most two operations.
Many == <<[op |-> "many"]>>

Begin(e) ==
    IF Quiet
    THEN base' = tasks /\ log' = <<e>>
    ELSE IF log # Many /\ Len(log) < 2
    THEN base' = base /\ log' = Append(log, e)
    ELSE base' = <<>> /\ log' = Many

\* update_status, lines 175-191: connect, SELECT, decide
update_status_read(p, id, new_status) ==
    LET plan == update_status_plan(get_row(tasks, id), new_status, now)
    IN  /\ procs[p] = Idle
        /\ Begin(Entry("update_status", id, new_status))
        /\ procs' = [procs EXCEPT ![p] =
                        IF plan.kind = "write"
                        THEN [op |-> "update_status", id |-> id, plan |-> plan]
                        ELSE Idle]
        /\ UNCHANGED <<tasks, nextId, now, last, notes, everDone, tags_column, users, sightings, handlers>>

\* update_status, lines 193-199: UPDATE, commit
update_status_write(p) ==
    /\ procs[p].op = "update_status"
    /\ tasks' = update_status_commit(tasks, procs[p].id, procs[p].plan, now)
    /\ notes' = Rearm(notes, {procs[p].id}, procs[p].plan.status)
    /\ everDone' = IF procs[p].plan.status = "done"
                   THEN everDone \cup {procs[p].id} ELSE everDone
    /\ procs' = [procs EXCEPT ![p] = Idle]
    /\ UNCHANGED <<nextId, now, last, base, log, tags_column, users, sightings, handlers>>

\* extend_deadline, lines 222-236
extend_deadline_read(p, id, new_deadline) ==
    LET plan == extend_deadline_plan(get_row(tasks, id))
    IN  /\ procs[p] = Idle
        /\ Begin(Entry("extend_deadline", id, new_deadline))
        /\ procs' = [procs EXCEPT ![p] =
                        IF plan.kind = "write"
                        THEN [op |-> "extend_deadline", id |-> id,
                              deadline |-> new_deadline, plan |-> plan]
                        ELSE Idle]
        /\ UNCHANGED <<tasks, nextId, now, last, notes, everDone, tags_column, users, sightings, handlers>>

\* extend_deadline, lines 238-244
extend_deadline_write(p) ==
    /\ procs[p].op = "extend_deadline"
    /\ tasks' = extend_deadline_commit(tasks, procs[p].id, procs[p].deadline,
                                       procs[p].plan, now)
    /\ notes' = Rearm(notes, {procs[p].id}, procs[p].plan.status)
    /\ procs' = [procs EXCEPT ![p] = Idle]
    /\ UNCHANGED <<nextId, now, last, everDone, base, log, tags_column, users, sightings, handlers>>

\* edit_task, lines 263-291
edit_task_read(p, id, updates) ==
    LET plan == edit_task_plan(get_row(tasks, id), updates)
    IN  /\ procs[p] = Idle
        /\ Begin(Entry("edit_task", id, updates))
        /\ procs' = [procs EXCEPT ![p] =
                        IF plan.kind = "write"
                        THEN [op |-> "edit_task", id |-> id,
                              updates |-> updates, plan |-> plan]
                        ELSE Idle]
        /\ UNCHANGED <<tasks, nextId, now, last, notes, everDone, tags_column, users, sightings, handlers>>

\* edit_task, lines 293-300
edit_task_write(p) ==
    /\ procs[p].op = "edit_task"
    /\ tasks' = edit_task_commit(tasks, procs[p].id, procs[p].updates,
                                 procs[p].plan.fields, now)
    /\ procs' = [procs EXCEPT ![p] = Idle]
    /\ UNCHANGED <<nextId, now, last, notes, everDone, base, log, tags_column, users, sightings, handlers>>

\* check_overdue, lines 41-58: SELECT; with nothing selected it returns
check_overdue_read(p, chat_id) ==
    LET ids == check_overdue_select(tasks, chat_id, now)
    IN  /\ procs[p] = Idle
        /\ Begin(Entry("check_overdue", 0, chat_id))
        /\ procs' = [procs EXCEPT ![p] =
                        IF ids # {}
                        THEN [op |-> "check_overdue", ids |-> ids,
                              result |-> check_overdue_result({tasks[i] : i \in ids})]
                        ELSE Idle]
        /\ UNCHANGED <<tasks, nextId, now, last, notes, everDone, tags_column, users, sightings, handlers>>

\* check_overdue, lines 61-97: UPDATE .. WHERE id IN (ids), commit, and the
\* notification list built from the rows selected
check_overdue_write(p) ==
    /\ procs[p].op = "check_overdue"
    /\ tasks' = check_overdue_commit(tasks, procs[p].ids, now)
    /\ notes' = Seen(notes, IF procs[p].result = "ok" THEN procs[p].ids ELSE {})
    /\ procs' = [procs EXCEPT ![p] = Idle]
    /\ UNCHANGED <<nextId, now, last, everDone, base, log, tags_column, users, sightings, handlers>>

\* add_task is one INSERT: one step
add_task_step(data) ==
    /\ add_task_valid(data)
    /\ add_task_accepts(data)
    /\ nextId < MaxConcTasks
    /\ tasks' = add_task_commit(tasks, nextId + 1, data, now)
    /\ nextId' = nextId + 1
    /\ notes' = [i \in DOMAIN notes \cup {nextId + 1} |->
                    IF i = nextId + 1 THEN 0 ELSE notes[i]]
    /\ UNCHANGED <<now, last, everDone, procs, base, log, tags_column, users, sightings, handlers>>

ConcTick ==
    /\ now < MaxTime
    /\ now' = now + 1
    /\ UNCHANGED <<tasks, nextId, last, notes, everDone, procs, base, log, tags_column, users, sightings, handlers>>

ConcIdArgs == 1..MaxConcTasks

ConcNext ==
    \/ \E c \in ChatArgs, d \in {NULL} \cup Deadlines :
          add_task_step(AddData(AddKeys, c, d, NULL))
    \/ \E p \in Procs, id \in ConcIdArgs, a \in Actions :
          update_status_read(p, id, CommandStatus(a))
    \/ \E p \in Procs : update_status_write(p)
    \/ \E p \in Procs, id \in ConcIdArgs, d \in Deadlines : extend_deadline_read(p, id, d)
    \/ \E p \in Procs : extend_deadline_write(p)
    \/ \E p \in Procs, id \in ConcIdArgs, d \in {NULL} \cup Deadlines :
          edit_task_read(p, id, EditData(EditKeys, d))
    \/ \E p \in Procs : edit_task_write(p)
    \/ \E p \in Procs, c \in ChatArgs : check_overdue_read(p, c)
    \/ \E p \in Procs : check_overdue_write(p)
    \/ ConcTick

ConcSpec == Init /\ [][ConcNext]_vars

\* ---- UserConcSpec: upsert_user calls of several processes interleave -------------
\* resolve_user.py lines 49-61 and 74: connect, SELECT chat_ids, decide.  The
\* sqlite3 module opens a transaction before the UPDATE or INSERT, not before
\* the SELECT
upsert_user_read(p, telegram_id, chat_id) ==
    /\ procs[p] = Idle
    /\ procs' = [procs EXCEPT ![p] =
                    [op |-> "upsert_user", id |-> telegram_id, chat |-> chat_id,
                     plan |-> upsert_user_plan(users, telegram_id, chat_id)]]
    /\ UNCHANGED <<tasks, nextId, now, last, notes, everDone, base, log,
                   tags_column, users, sightings, handlers>>

\* lines 63-87: the UPDATE or INSERT and the commit; an INSERT of a key the
\* table holds by now raises, and the call ends with {"error": ...}
upsert_user_write(p) ==
    /\ procs[p].op = "upsert_user"
    /\ users' = upsert_user_commit(users, procs[p].id, NULL, NULL, NULL,
                                   procs[p].plan)
    /\ sightings' = Sighted(sightings, procs[p].id, procs[p].chat)
    /\ last' = Done("upsert_user", procs[p].id, procs[p].chat, NULL,
                    IF procs[p].plan.kind = "insert" /\ procs[p].id \in DOMAIN users
                    THEN "error" ELSE "ok", {})
    /\ procs' = [procs EXCEPT ![p] = Idle]
    /\ UNCHANGED <<tasks, nextId, now, notes, everDone, base, log, tags_column,
                   handlers>>

UserConcNext ==
    \/ \E p \in Procs, c \in ChatArgs : upsert_user_read(p, 1, c)
    \/ \E p \in Procs : upsert_user_write(p)

UserConcSpec == Init /\ [][UserConcNext]_vars

\* ---- what two operations do when one runs after the other --------------------
\* the operation e of an episode, run alone on store at time t
Replay(store, e, t) ==
    CASE e.op = "update_status" ->
            LET plan == update_status_plan(get_row(store, e.id), e.arg, t)
            IN  IF plan.kind = "write"
                THEN update_status_commit(store, e.id, plan, t) ELSE store
      [] e.op = "extend_deadline" ->
            LET plan == extend_deadline_plan(get_row(store, e.id))
            IN  IF plan.kind = "write"
                THEN extend_deadline_commit(store, e.id, e.arg, plan, t) ELSE store
      [] e.op = "edit_task" ->
            LET plan == edit_task_plan(get_row(store, e.id), e.arg)
            IN  IF plan.kind = "write"
                THEN edit_task_commit(store, e.id, e.arg, plan.fields, t) ELSE store
      [] OTHER -> store

Mutations == {"update_status", "extend_deadline", "edit_task"}

Terminal == {"done", "cancelled"}

\* ---- the claims ------------------------------------------------------------------

\* C1: start, done and cancel (update_status) leave the status of a task that
\* is done or cancelled as it is.
C1_TerminalStatusKept ==
    [][\A id \in IdArgs, a \in Actions :
          (/\ id \in DOMAIN tasks
           /\ tasks[id].status \in Terminal
           /\ update_status(id, CommandStatus(a)))
          => tasks'[id].status = tasks[id].status]_vars

\* C2: the UPDATE of a check_overdue run never sets to overdue a task it
\* selected that a user has meanwhile moved to done or cancelled.
C2_ReconcilerKeepsUserState ==
    [][\A p \in Procs :
          (procs[p].op = "check_overdue" /\ check_overdue_write(p))
          => \A i \in procs[p].ids :
                tasks[i].status \in Terminal => tasks'[i].status = tasks[i].status]_vars

\* C3: whatever the interleaving of check_overdue runs, a task is in the
\* notification list of at most one of them per breach of its deadline.
C3_NoDuplicateNotification == \A i \in DOMAIN notes : notes[i] <= 1

\* C4: two mutations of one task that ran concurrently leave the row as one of
\* the two serial orders of the two would have left it.
C4_Serializable ==
    (/\ Quiet
     /\ log # Many
     /\ Len(log) = 2
     /\ log[1].at = now
     /\ log[1].op \in Mutations
     /\ log[2].op \in Mutations
     /\ log[1].id = log[2].id
     /\ log[1].id \in DOMAIN base)
    => tasks[log[1].id] \in
          {Replay(Replay(base, log[1], now), log[2], now)[log[1].id],
           Replay(Replay(base, log[2], now), log[1], now)[log[1].id]}

\* C5: a check_overdue that directly follows a check_overdue of the same (or of
\* every) chat, with no time passed, reports no task and changes no row.
C5_ReconcileIdempotent ==
    [][\A c \in ChatArgs :
          (/\ last.op = "check_overdue"
           /\ last.chat \in {c, NULL}
           /\ check_overdue(c))
          => (last'.ids = {} /\ last'.result = "ok" /\ tasks' = tasks)]_vars

C5_Witness ==
    /\ last.op = "check_overdue"
    /\ last.rerun
    /\ \E i \in DOMAIN tasks :
          /\ tasks[i].status = "overdue"
          /\ tasks[i].updated_at = now
          /\ last.chat \in {NULL, <<tasks[i].chat_id>>}

\* C6: a check_overdue run sets to overdue exactly the tasks of the chat asked
\* for (of every chat when none is given) whose deadline is not null and
\* names an instant earlier than now and whose status is todo or in_progress;
\* every other task keeps its status, and no task appears or disappears.
C6_ReconcileFrame ==
    [][\A c \in ChatArgs :
          (last'.op = "check_overdue" /\ check_overdue(c))
          => /\ DOMAIN tasks' = DOMAIN tasks
             /\ \A i \in DOMAIN tasks :
                   tasks'[i].status =
                      IF /\ tasks[i].deadline # NULL
                         /\ Instant(tasks[i].deadline) < now
                         /\ tasks[i].status \in {"todo", "in_progress"}
                         /\ (c = NULL \/ c[1] = tasks[i].chat_id)
                      THEN "overdue"
                      ELSE tasks[i].status]_vars

\* C7: once the completed_at of a task is not null, no operation changes it.
C7_CompletedAtSetOnce ==
    [][\A i \in DOMAIN tasks :
          tasks[i].completed_at # NULL
          => tasks'[i].completed_at = tasks[i].completed_at]_vars

\* C8: once the completed_at of a task is not null it never is null again,
\* whatever the interleaving of the operations.
C8_CompletedAtNeverCleared ==
    [][\A i \in DOMAIN tasks :
          tasks[i].completed_at # NULL => tasks'[i].completed_at # NULL]_vars

\* C9: a task that is done has a completed_at, and a task has a completed_at
\* only if a transition has set it to done.
C9_DoneIffCompleted ==
    \A i \in DOMAIN tasks :
        /\ tasks[i].status = "done" => tasks[i].completed_at # NULL
        /\ tasks[i].completed_at # NULL => i \in everDone

\* C10: extend_deadline on an overdue task leaves it todo with the new
\* deadline, whatever the new deadline is.
C10_ExtendOverdue ==
    [][\A id \in IdArgs, d \in Deadlines :
          (/\ id \in DOMAIN tasks
           /\ tasks[id].status = "overdue"
           /\ extend_deadline(id, d))
          => (tasks'[id].status = "todo" /\ tasks'[id].deadline = d)]_vars

C10_Witness ==
    /\ last.op = "extend_deadline"
    /\ last.old_status = "overdue"
    /\ last.id \in DOMAIN tasks
    /\ tasks[last.id].status = "todo"
    /\ tasks[last.id].deadline[1] < now

\* C11: update_status(id, s) on a task whose status already is s returns the
\* informational result, not an error, and changes no field of any task.
C11_SameStatusNoOp ==
    [][\A id \in IdArgs, a \in Actions :
          (/\ id \in DOMAIN tasks
           /\ tasks[id].status = CommandStatus(a)
           /\ update_status(id, CommandStatus(a)))
          => (tasks' = tasks /\ last'.result = "noop")]_vars

C11_Witness ==
    /\ last.op = "update_status"
    /\ last.result = "noop"
    /\ last.old_status = "done"
    /\ tasks[last.id].completed_at # NULL
    /\ tasks[last.id].updated_at < now


\* C12: add_task on an input that has description, creator id and chat id
\* creates exactly one new task, with status todo, completed_at null, and
\* priority medium when the input has no priority; no other row changes.
C12_CreateYieldsTodo ==
    [][\A c \in ChatIds, d \in {NULL} \cup Deadlines,
          p \in {NULL} \cup {<<q>> : q \in Priorities} :
          LET K    == IF p = NULL THEN AddKeys ELSE AddKeys \cup {"priority"}
              data == AddData(K, <<c>>, d, p)
          IN  add_task(data)
              => /\ DOMAIN tasks' = DOMAIN tasks \cup {nextId + 1}
                 /\ nextId + 1 \notin DOMAIN tasks
                 /\ \A i \in DOMAIN tasks : tasks'[i] = tasks[i]
                 /\ tasks'[nextId + 1].status = "todo"
                 /\ tasks'[nextId + 1].completed_at = NULL
                 /\ p = NULL => tasks'[nextId + 1].priority = <<"medium">>]_vars


\* C13: add_task on an input without a description, without a creator id (under
\* either of its two keys) or without a chat id returns the missing-field
\* error, creates no task and leaves the table and the id sequence unchanged.
C13_CreateRejectsMissing ==
    [][\A K \in SUBSET CreateKeys :
          (/\ \/ "description" \notin K
              \/ "chat_id" \notin K
              \/ K \cap {"creator_id", "creator_telegram_id"} = {}
           /\ add_task(AddData(K, <<1>>, NULL, <<"high">>)))
          => (last'.result = "invalid" /\ tasks' = tasks /\ nextId' = nextId)]_vars

C13_Witness ==
    /\ last.op = "add_task"
    /\ last.result = "invalid"
    /\ tags_column
    /\ DOMAIN tasks = {1}


\* C14: update_status, extend_deadline and edit_task on an id that no task has
\* return the not-found error and leave the table as it is.
C14_UnknownIdNotFound ==
    [][\A id \in IdArgs :
          (/\ id \notin DOMAIN tasks
           /\ \/ \E a \in Actions : update_status(id, CommandStatus(a))
              \/ \E d \in Deadlines : extend_deadline(id, d)
              \/ \E d \in {NULL} \cup Deadlines : edit_task(id, EditData(EditKeys, d))
              \/ edit_task(id, EditData(EditKeys \ {"deadline"}, NULL)))
          => (last'.result = "not_found" /\ tasks' = tasks)]_vars

C14_Witness ==
    /\ last.op \in {"update_status", "extend_deadline", "edit_task"}
    /\ last.result = "not_found"
    /\ DOMAIN tasks = {1}
    /\ last.id = 2


\* C15: the tasks in the notification list of a check_overdue run are exactly
\* the tasks the run has set to overdue, and the run does not fail.
C15_NotifiesEachTransition ==
    [][\A c \in ChatArgs :
          check_overdue(c)
          => /\ last'.result = "ok"
             /\ last'.ids = {i \in DOMAIN tasks :
                               /\ tasks[i].status # "overdue"
                               /\ tasks'[i].status = "overdue"}]_vars

\* C16: in a check_overdue run, a selected task whose own processing does not
\* fail (its deadline carries an offset) is set to overdue and is in the
\* notification list, whatever happens to the other tasks selected.
C16_BatchFailureIsolated ==
    [][\A c \in ChatArgs :
          check_overdue(c)
          => \A i \in DOMAIN tasks :
                (/\ tasks[i].deadline # NULL
                 /\ tasks[i].deadline[2]
                 /\ tasks[i].deadline[1] < now
                 /\ tasks[i].status \in {"todo", "in_progress"}
                 /\ (c = NULL \/ c[1] = tasks[i].chat_id))
                => (tasks'[i].status = "overdue" /\ i \in last'.ids)]_vars


\* C17: only check_overdue sets a task to overdue: after a step of add_task,
\* update_status, extend_deadline, edit_task or the router, a task is overdue
\* only if it was overdue before the step.
C17_OverdueOnlyByReconciler ==
    [][(~ (last'.op = "check_overdue" /\ \E c \in ChatArgs : check_overdue(c)))
          => \A i \in DOMAIN tasks' :
                tasks'[i].status = "overdue"
                => (i \in DOMAIN tasks /\ tasks[i].status = "overdue")]_vars

C17_Witness ==
    /\ last.op = "edit_task"
    /\ last.result = "ok"
    /\ last.old_status = "in_progress"
    /\ tasks[last.id].status = "in_progress"
    /\ tasks[last.id].deadline # NULL
    /\ tasks[last.id].deadline[1] < now


\* C18: the result of update_status has the task's cron_job_ids, as the row had
\* them before the step, exactly when the step has moved the task into done or
\* cancelled from another status; the step leaves the row's cron_job_ids as
\* they were.
C18_JobRefsOnTerminalMove ==
    [][\A id \in IdArgs, a \in Actions :
          (last'.op = "update_status" /\ update_status(id, CommandStatus(a)))
          => LET moved == /\ id \in DOMAIN tasks
                          /\ CommandStatus(a) \in Terminal
                          /\ tasks[id].status # CommandStatus(a)
                          /\ tasks'[id].status = CommandStatus(a)
             IN  /\ last'.cron = IF moved THEN <<tasks[id].cron_job_ids>> ELSE NULL
                 /\ id \in DOMAIN tasks
                    => tasks'[id].cron_job_ids = tasks[id].cron_job_ids]_vars

C18_Witness ==
    /\ last.op = "update_status"
    /\ last.cron # NULL
    /\ last.old_status = "overdue"
    /\ tasks[last.id].status = "cancelled"


\* C19: edit_task writes no column outside the allow-list (status, chat_id,
\* creator_id, completed_at and cron_job_ids keep their values, and no other
\* task changes), and an update with no allow-listed key returns the error
\* and leaves the table, updated_at included, as it is.
C19_EditWritesAllowListOnly ==
    [][last'.op = "edit_task" =>
       /\ DOMAIN tasks' = DOMAIN tasks
       /\ \A i \in DOMAIN tasks :
             /\ \A c \in {"status", "chat_id", "creator_id", "completed_at",
                           "cron_job_ids"} : tasks'[i][c] = tasks[i][c]
             /\ i # last'.id => tasks'[i] = tasks[i]
       /\ \A id \in DOMAIN tasks :
             edit_task(id, EditData(EditKeys \ {"deadline"}, NULL))
             => (last'.result = "invalid" /\ tasks' = tasks)]_vars

C19_Witness ==
    /\ last.op = "edit_task"
    /\ last.result = "invalid"
    /\ last.id \in DOMAIN tasks
    /\ tasks[last.id].updated_at < now

\* C20: no step changes the creator_id or the chat_id of a task: a task that
\* is in the table before and after a step has, under its id, the same
\* creator and the same chat.
C20_IdentityImmutable ==
    [][\A i \in DOMAIN tasks \cap DOMAIN tasks' :
          /\ tasks'[i].creator_id = tasks[i].creator_id
          /\ tasks'[i].chat_id = tasks[i].chat_id]_vars

C20_Witness ==
    /\ last.op = "edit_task"
    /\ last.result = "ok"
    /\ tasks[last.id].chat_id # MaxChat
    /\ tasks[last.id].creator_id # 2
    /\ tasks[last.id].updated_at = now


\* C21: the archival sweep removes no task whose status is todo, in_progress
\* or overdue, however long ago it was last updated, and a weekly review
\* without --archive leaves the table as it is.
C21_SweepKeepsActive ==
    [][\A c \in ChatIds, archive \in BOOLEAN :
          (last'.op = "weekly_review" /\ generate_weekly_review(c, archive))
          => /\ \A i \in DOMAIN tasks :
                   tasks[i].status \in {"todo", "in_progress", "overdue"}
                   => (i \in DOMAIN tasks' /\ tasks'[i] = tasks[i])
             /\ ~archive => tasks' = tasks]_vars

C21_Witness ==
    /\ last.op = "weekly_review"
    /\ DOMAIN notes # DOMAIN tasks
    /\ \E i \in DOMAIN tasks :
          /\ tasks[i].status = "overdue"
          /\ tasks[i].chat_id = last.chat[1]
          /\ TextLess(sqlite_now(tasks[i].updated_at), two_weeks_ago(now))

\* C22: the archival sweep for a chat removes exactly the tasks of that chat
\* that are done or cancelled and were last updated more than the retention
\* window of 14 days ago; every other task stays, unchanged.
C22_SweepRemovesExactly ==
    [][\A c \in ChatIds :
          (last'.op = "weekly_review" /\ generate_weekly_review(c, TRUE))
          => /\ DOMAIN tasks' =
                   {i \in DOMAIN tasks :
                       ~ (/\ tasks[i].chat_id = c
                          /\ tasks[i].status \in Terminal
                          /\ now - tasks[i].updated_at > RetentionDays * TicksPerDay)}
             /\ \A i \in DOMAIN tasks' : tasks'[i] = tasks[i]]_vars

\* C23: the id add_task gives a new task is greater than the id of every task
\* created before (DOMAIN notes has the id of every task ever created,
\* archived or not) and is the key of no row.
C23_IdsIncreaseNeverReused ==
    [][(last'.op = "add_task" /\ last'.result = "ok")
          => /\ last'.id \notin DOMAIN notes
             /\ \A i \in DOMAIN notes : i < last'.id
             /\ last'.id \notin DOMAIN tasks
             /\ DOMAIN tasks' = DOMAIN tasks \cup {last'.id}]_vars

C23_Witness ==
    /\ last.op = "add_task"
    /\ last.result = "ok"
    /\ last.id = 2
    /\ DOMAIN tasks = {2}
    /\ DOMAIN notes = {1, 2}


C25_TagsNormalized ==
    [][/\ (last.op = "tags" /\ last'.op = "normalize_tags")
          => /\ \A n \in DOMAIN last'.list :
                   LET tag == last'.list[n]
                   IN  /\ tag # <<>>
                       /\ \A k \in DOMAIN tag : tag[k] # "A"
                       /\ tag[1] \notin {"#", " "}
                       /\ tag[Len(tag)] # " "
                       /\ \A m \in DOMAIN last'.list :
                             m # n => last'.list[m] # tag
             /\ last.list = TagsExample => last'.list = << <<"a">> >>
       /\ (last.op = "normalize_tags" /\ last'.op = "normalize_tags_again")
          => last'.list = last.list]_vars


\* C26 (as stated): every response of the router, whatever the token, offers
\* the button m_main that leads back to the main view.
C26_EveryResponseHasMain ==
    (last.op = "route" /\ last.sent # <<>>)
    => \E n \in 1..Len(last.sent) : Main \in last.sent[n].buttons

\* C26 (amended): every response of the router to a token other than m_main
\* offers the button m_main; the response to m_main is the main view itself,
\* one message whose buttons are the six views and not m_main.
C26_ResponseHasMainOrIsMain ==
    last.op = "route"
    => /\ (last.args[1] # Main /\ last.sent # <<>>)
          => \E n \in 1..Len(last.sent) : Main \in last.sent[n].buttons
       /\ last.args[1] = Main
          => /\ ~last.raised
             /\ Len(last.sent) = 1
             /\ last.sent[1].kind = "main"
             /\ last.sent[1].buttons =
                    {Menu(w) : w \in {"m_create", "m_my", "m_all", "m_overdue",
                                      "m_stats", "m_viz"}}

\* a task action that succeeded: the label without buttons, then the view of
\* the task with the button m_main
C26_Witness ==
    /\ last.op = "route"
    /\ last.args[1].prefix = "a_done_"
    /\ Len(last.sent) = 2
    /\ last.sent[1].buttons = {}
    /\ Main \in last.sent[2].buttons

\* C27: no dispatch of the router ends in a raw failure without a message:
\* every dispatch returns normally and has sent a response to the chat.
C27_FailuresBecomeResponses ==
    last.op = "route" => (~last.raised /\ last.sent # <<>>)

\* C28: a task token whose suffix is not an integer is answered with the
\* unknown-command response, and with nothing that concerns a task.
C28_MalformedIdIsUnknown ==
    (/\ last.op = "route"
     /\ last.args[1].prefix \in {"t_", "a_done_", "a_start_", "a_cancel_",
                                 "a_edit_", "a_extend_"}
     /\ last.args[1].arg = NULL)
    => (~last.raised /\ last.sent = cmd_route_unknown.sent)

\* C29: the token t_<id> for an id that the store does not hold is answered
\* with the not-found response and its button m_main; the dispatch returns
\* normally and no task is changed.
C29_MissingTaskIsNotFound ==
    [][(/\ last'.op = "route"
        /\ last'.args[1].prefix = "t_"
        /\ last'.args[1].arg # NULL
        /\ last'.args[3].store
        /\ last'.args[1].arg[1] \notin DOMAIN tasks)
       => /\ ~last'.raised
          /\ last'.sent = <<Msg("not_found", {Main})>>
          /\ tasks' = tasks]_vars

C29_Witness ==
    /\ last.op = "route"
    /\ last.args[1] = Tok("t_", <<2>>)
    /\ DOMAIN tasks = {1}
    /\ ~last.raised
    /\ last.sent[1].kind = "not_found"

\* C30: the token m_my without the caller's identity is answered with an
\* error response and its button m_main; the dispatch returns normally
\* whether or not the store can be reached, and no task is changed.
C30_MyTasksNeedsCaller ==
    [][(/\ last'.op = "route"
        /\ last'.args[1] = Menu("m_my")
        /\ last'.args[2] \in {NULL, <<0>>})
       => /\ ~last'.raised
          /\ last'.sent = <<Msg("no_user", {Main})>>
          /\ tasks' = tasks]_vars

\* the store holds a task and cannot be reached
C30_Witness ==
    /\ last.op = "route"
    /\ last.args[1] = Menu("m_my")
    /\ last.args[2] = NULL
    /\ ~last.args[3].store
    /\ DOMAIN tasks # {}
    /\ last.sent # <<>>


\* C39: in every reachable state a task whose stored status is overdue has
\* a deadline, and the deadline lies before now.
C39_OverdueHasPastDeadline ==
    \A i \in DOMAIN tasks :
        tasks[i].status = "overdue"
        => (tasks[i].deadline # NULL /\ DeadlineBefore(tasks[i].deadline, now))


\* C36: for a token a_done_<id>, a_start_<id> or a_cancel_<id> and a chained
\* script that ends in time, the transition is committed before the task is
\* read for its view: with an id the store holds, the router sends the label
\* and then the view of the task, which shows the new status, the status the
\* store now holds; when the transition returns an error (no such id, store
\* unreachable) the router sends the error response with m_main alone, no
\* view, and the store is as it was.
C36_ActionThenView ==
    [][(/\ last'.op = "route"
        /\ RouteAction(last'.args[1].prefix) # NULL
        /\ last'.args[1].arg # NULL
        /\ last'.args[3].timeout = "no")
       => LET id     == last'.args[1].arg[1]
              status == CommandStatus(RouteAction(last'.args[1].prefix)[1])
          IN  IF last'.args[3].store /\ id \in DOMAIN tasks
              THEN /\ ~last'.raised
                   /\ Len(last'.sent) = 2
                   /\ last'.sent[1].kind = "label"
                   /\ last'.sent[2].kind = "detail"
                   /\ last'.sent[2].status = status
                   /\ tasks'[id].status = status
              ELSE /\ ~last'.raised
                   /\ last'.sent = <<Msg("error", {Main})>>
                   /\ tasks' = tasks]_vars

\* a task that was done is started again, and its view shows in_progress
C36_Witness ==
    /\ last.op = "route"
    /\ last.args[1] = Tok("a_start_", <<1>>)
    /\ 1 \in everDone
    /\ Len(last.sent) = 2
    /\ last.sent[2].status = "in_progress"
    /\ tasks[1].status = "in_progress"

\* C37: only a task action mutates the store: the dispatch of any other
\* token (m_*, t_<id>, a_edit_<id>, a_extend_<id>, v_<chart>, unknown, and a
\* task action without an integer id) leaves every task as it was; a_edit_
\* and a_extend_ send a prompt alone, and m_overdue sets no task to overdue.
C37_OnlyActionsMutate ==
    [][(/\ last'.op = "route"
        /\ (RouteAction(last'.args[1].prefix) = NULL \/ last'.args[1].arg = NULL))
       => /\ tasks' = tasks
          /\ last'.args[1].prefix \in {"a_edit_", "a_extend_"}
             => /\ Len(last'.sent) = 1
                /\ last'.sent[1].kind \in {"edit_prompt", "extend_prompt"}]_vars

\* the overdue view lists a task past its deadline, and the task is still todo
C37_Witness ==
    /\ last.op = "route"
    /\ last.args[1] = Menu("m_overdue")
    /\ last.sent # <<>>
    /\ Tok("t_", <<1>>) \in last.sent[1].buttons
    /\ 1 \in DOMAIN tasks
    /\ tasks[1].status = "todo"


\* C38: get_overdue changes nothing and returns exactly the tasks in scope
\* that have a deadline whose instant lies before now and status todo,
\* in_progress or overdue, each once, ordered by the instant of the deadline
\* ascending.
C38_OverdueOnDemand ==
    [][last'.op = "get_overdue"
       => LET c   == last'.chat
              out == last'.list
          IN  /\ tasks' = tasks
              /\ {out[n] : n \in 1..Len(out)} =
                    {i \in DOMAIN tasks :
                        /\ InScope(tasks[i], c)
                        /\ tasks[i].deadline # NULL
                        /\ Instant(tasks[i].deadline) < now
                        /\ tasks[i].status \in Active}
              /\ \A m, n \in 1..Len(out) :
                    m < n => /\ out[m] # out[n]
                             /\ Instant(tasks[out[m]].deadline)
                                    <= Instant(tasks[out[n]].deadline)]_vars


\* C34: upsert_user merges by presence: for a user the table holds, each of
\* username, first name and last name is overwritten exactly when the new
\* value is neither null nor the empty text, and keeps its value otherwise.
C34_MergeByPresence ==
    [][(last'.op = "upsert_user" /\ last'.id \in DOMAIN users)
       => LET old == users[last'.id]
              new == users'[last'.id]
              merged(given, stored) ==
                  IF given # NULL /\ given # <<<<>>>> THEN given ELSE stored
          IN  /\ new.username   = merged(last'.args[1], old.username)
              /\ new.first_name = merged(last'.args[2], old.first_name)
              /\ new.last_name  = merged(last'.args[3], old.last_name)]_vars


\* C35: chat_ids is append-only under every interleaving of upsert_user calls
\* for a user: no step removes the user or an element of its chat_ids, the
\* list has no element twice, and once no call is running it has every chat
\* id that was given to a call.
C35_ChatIdsAppendOnly ==
    [][/\ \A i \in DOMAIN users :
            /\ i \in DOMAIN users'
            /\ Elems(users[i].chat_ids) \subseteq Elems(users'[i].chat_ids)
       /\ \A i \in DOMAIN users' :
            Cardinality(Elems(users'[i].chat_ids)) = Len(users'[i].chat_ids)
       /\ Quiet'
          => \A i \in DOMAIN sightings' :
                /\ i \in DOMAIN users'
                /\ sightings'[i] \subseteq Elems(users'[i].chat_ids)]_vars


\* C31: whenever some user has the normalized query (trimmed, without the
\* leading '@', compared without regard to case) as username and either no
\* chat is given or the chat is among the user's chat_ids, search_user
\* returns EXACT_MATCH with such a user; and when a chat is given, every user
\* returned has that chat among its chat_ids.
C31_ExactUsernameMatch ==
    [][last'.op = "search_user"
       => LET q       == search_user_query(last'.args[1])
              c       == last'.chat
              out     == last'.list
              holders == {i \in DOMAIN users :
                            /\ users[i].username # NULL
                            /\ lower(users[i].username[1]) = q
                            /\ (c = NULL \/ c[1] \in Elems(users[i].chat_ids))}
          IN  /\ holders # {}
                 => /\ last'.result = "EXACT_MATCH"
                    /\ Len(out) = 1
                    /\ out[1] \in holders
              /\ c # NULL
                 => \A n \in 1..Len(out) : c[1] \in Elems(users[out[n]].chat_ids)]_vars


\* C32: when no user in scope has the normalized query as username, the
\* result of search_user is decided by the best scores of the users in scope:
\* NOT_FOUND exactly when no user scores at or above the threshold,
\* EXACT_MATCH with one user of the top score when the top score is at least
\* 0.95, SUGGESTIONS otherwise; the result is one of the three.
C32_ThreeWayResult ==
    [][last'.op = "search_user"
       => LET q      == search_user_query(last'.args[1])
              c      == last'.chat
              config == last'.args[2]
              out    == last'.list
              scope  == {i \in DOMAIN users :
                            c # NULL => c[1] \in Elems(users[i].chat_ids)}
              named  == {i \in scope : /\ users[i].username # NULL
                                       /\ lower(users[i].username[1]) = q}
              score  == {<<i, best_score(users[i], q)>> : i \in scope}
              kept   == {s \in score : ScoreGE(s[2], config.fuzzy_threshold)}
              top    == {s \in kept : \A r \in kept : ScoreGE(s[2], r[2])}
          IN  named = {}
              => /\ last'.result \in {"NOT_FOUND", "EXACT_MATCH", "SUGGESTIONS"}
                 /\ last'.result = "NOT_FOUND" <=> kept = {}
                 /\ last'.result = "EXACT_MATCH"
                    <=> \E s \in top : ScoreGE(s[2], ExactScore)
                 /\ last'.result = "EXACT_MATCH"
                    => (Len(out) = 1 /\ \E s \in top : s[1] = out[1])
                 /\ last'.result = "NOT_FOUND" => out = <<>>]_vars

\* the three results, each reached without a username match: a fuzzy hit of
\* score 1.0 on a first name
C32_Witness ==
    /\ last.op = "search_user"
    /\ last.result = "EXACT_MATCH"
    /\ last.args[1] = <<"a">>
    /\ Cardinality(DOMAIN users) = MaxUsers
    /\ \A i \in DOMAIN users : users[i].username = NULL

\* C33: a SUGGESTIONS result has at least one and at most max_suggestions
\* users, no user twice, in descending order of score, each with a score at
\* or above the threshold and below 0.95, and no user in scope that is left
\* out scores higher than one that is in it.
C33_Suggestions ==
    [][(last'.op = "search_user" /\ last'.result = "SUGGESTIONS")
       => LET q      == search_user_query(last'.args[1])
              c      == last'.chat
              config == last'.args[2]
              out    == last'.list
              scope  == {i \in DOMAIN users :
                            c # NULL => c[1] \in Elems(users[i].chat_ids)}
              score  == {<<i, best_score(users[i], q)>> : i \in scope}
              given  == {s \in score : s[1] \in Elems(out)}
              place  == [i \in Elems(out) |->
                            CHOOSE n \in 1..Len(out) : out[n] = i]
          IN  /\ Len(out) >= 1
              /\ Len(out) <= config.max_suggestions
              /\ Elems(out) \subseteq scope
              /\ Cardinality(Elems(out)) = Len(out)
              /\ \A s \in given :
                    /\ ScoreGE(s[2], config.fuzzy_threshold)
                    /\ ~ScoreGE(s[2], ExactScore)
              /\ \A s, r \in given :
                    place[s[1]] < place[r[1]] => ScoreGE(s[2], r[2])
              /\ \A s \in score \ given, r \in given : ~ScoreGT(s[2], r[2])]_vars

\* of three users searched among, all at or above the threshold, two are
\* suggested: the first scores more than the second though it was registered
\* after it, and the one left out scores no more than either
C33_Witness ==
    /\ last.op = "search_user"
    /\ last.result = "SUGGESTIONS"
    /\ last.chat = NULL
    /\ Len(last.list) = 2
    /\ last.args[2].max_suggestions = 2
    /\ Cardinality(DOMAIN users) = MaxUsers
    /\ LET q == search_user_query(last.args[1])
       IN  /\ ScoreGT(best_score(users[last.list[1]], q),
                      best_score(users[last.list[2]], q))
           /\ last.list[1] > last.list[2]
           /\ \A i \in DOMAIN users :
                 ScoreGE(best_score(users[i], q), last.args[2].fuzzy_threshold)


\* C40: an update whose sender has no username of the allowlist never gets a
\* program run for it -- neither menu.py route nor the main menu nor the
\* agent -- and every step that reads or writes the tasks (a step that
\* changes the table or the record of the last operation) is a step of the
\* thread of an allowed sender, or of the agent that such a thread is waiting
\* for, however the threads of the updates received interleave.
C40_OnlyAllowedSendersReachTasks ==
    [][LET allowed(n) ==
               LET user == handlers[n].update.from
               IN  /\ user # NULL
                   /\ user.username # NULL
                   /\ lower(user.username[1]) \in ALLOWED_USERS
       IN  /\ \A n \in DOMAIN handlers' :
                 handlers'[n].ran # "" => (n \in DOMAIN handlers /\ allowed(n))
           /\ (tasks' # tasks \/ last' # last)
              => \E n \in DOMAIN handlers :
                    /\ allowed(n)
                    /\ \/ handlers'[n].pc # handlers[n].pc
                       \/ handlers[n].pc = "agent"]_vars

\* a task is open; the button that completes it was pressed by a sender
\* whose username is not allowed, and that thread has ended at the access
\* check, while the thread of an allowed sender, started before it, has had
\* the agent create the task, and a message of another sender that is not
\* allowed has been dropped
C40_Witness ==
    /\ 1 \in DOMAIN tasks
    /\ tasks[1].status = "todo"
    /\ \E n, m, k \in DOMAIN handlers :
          /\ handlers[n].pc = "blocked"
          /\ handlers[n].update.data = Tok("a_done_", <<1>>)
          /\ handlers[n].update.from # NULL
          /\ handlers[n].update.from.username # NULL
          /\ handlers[m].ran = "agent"
          /\ handlers[m].pc = "done"
          /\ m < n
          /\ handlers[k].pc = "ignored"

====
